---- MODULE Spec2Model ----
(***************************************************************************)
(* Execution orchestration pipeline of the automation hub:                 *)
(*   - api/routes/tool_runs.py   submission endpoint (create_tool_run)     *)
(*   - api/routes/agent.py       _LocalRunClient.create_run (plan steps)   *)
(*   - api/approvals/router.py   approve / deny                            *)
(*   - worker/jobs_v2.py         run_tool_job (the Job Runner)             *)
(*   - worker/policy_enforce.py  is_run_approved                           *)
(*   - api/policy/engine.py      decide_execute (pure)                     *)
(*   - agent/executor.py         AgentExecutor.execute_plan                *)
(* Every database commit of a handler is one step, so that handlers, the   *)
(* worker and process crashes interleave at the places the code allows.    *)
(***************************************************************************)
EXTENDS Integers, Sequences, FiniteSets, TLC

VARIABLES
    runs,       \* table tool_runs: run id -> row (status "absent" = no row)
    approvals,  \* table approval_requests, keyed by resource_id (the run id)
    queue,      \* the RQ work queue: set of pending run_tool_job jobs
    audit,      \* table audit_events, in insertion order
    nextRun,    \* next fresh run identifier (uuid4 in the code)
    hpc,        \* per API handler: position inside the request it serves
    hreq,       \* per API handler: the request and its local variables
    lastResp,   \* the most recent HTTP response / return value of the API
    wpc,        \* the worker's position inside run_tool_job
    wjob,       \* the job the worker is processing
    wres,       \* outcome of the last finished run_tool_job invocation
    deliveries, \* number of job deliveries so far
    directs,    \* number of direct enqueues so far
    crashes,    \* number of API process crashes so far
    dpc,        \* policy engine harness: "input" or "decided"
    dIn,        \* policy engine harness: (scopes, tool, args)
    dOut,       \* policy engine harness: the Decision returned
    plan,       \* execute_plan: plan.steps
    approval,   \* execute_plan: self.approval is set (an approval handler)
    step_results, \* execute_plan: step id -> StepResult (status "none" = no entry)
    ppc,        \* execute_plan: position inside the loop
    pidx,       \* execute_plan: index of the step the loop is at
    tries,      \* per step id: status returned by each _execute_step call
    overall,    \* ExecutionResult.status once execute_plan has returned
    summary,    \* ExecutionResult.summary once execute_plan has returned
    wait,       \* _wait_for_completion: elapsed and timeout of the wait in progress
    epc,        \* execution block of run_tool_job: position inside lines 246-306
    call,       \* execution block: the job, what executor.run and log_event do
    run_row,    \* execution block: the tool_runs row of the job's run
    events,     \* execution block: audit events written, in insertion order
    caught,     \* execution block: text of the exception the except clause holds
    job_result, \* execution block: how run_tool_job ended
    history,    \* ConversationContext.history
    added,      \* every message passed to add_message so far, in call order
    working_directory, \* ConversationContext.working_directory ("" = None)
    project_type       \* ConversationContext.project_type ("" = None)

vars == <<runs, approvals, queue, audit, nextRun, hpc, hreq, lastResp,
          wpc, wjob, wres, deliveries, directs, crashes, dpc, dIn, dOut,
          plan, approval, step_results, ppc, pidx, tries, overall, summary, wait,
          epc, call, run_row, events, caught, job_result,
          history, added, working_directory, project_type>>

pipeVars == <<runs, approvals, queue, audit, nextRun, hpc, hreq, lastResp,
              wpc, wjob, wres, deliveries, directs, crashes>>

planVars == <<plan, approval, step_results, ppc, pidx, tries, overall, summary, wait>>

execVars == <<epc, call, run_row, events, caught, job_result>>

\* what the policy, path and plan harnesses leave alone besides the pipeline
ctxVars == <<history, added, working_directory, project_type>>

moreVars == <<execVars, ctxVars>>

\* everything outside the pipeline
polVars == <<dpc, dIn, dOut, planVars, moreVars>>

----------------------------------------------------------------------------
(* Bounds of the model *)

MaxRuns == 1
MaxHandlers == 1
MaxDeliveries == 2
MaxDirect == 1
MaxCrashes == 1
MaxSteps == 3

RunIds == 1..MaxRuns
Handlers == 1..MaxHandlers
GhostRun == 0

----------------------------------------------------------------------------
(* Paths.  A raw path string is its leading-slash flag and its "/"-separated *)
(* segments; pathlib.Path drops "." segments and keeps ".." segments.        *)

RawPath(abs, segs) == [abs |-> abs, segs |-> segs]

EmptyRaw == RawPath(FALSE, <<>>)

RECURSIVE DropDots(_)
DropDots(segs) ==
    IF segs = <<>> THEN <<>>
    ELSE IF Head(segs) = "." THEN DropDots(Tail(segs))
    ELSE <<Head(segs)>> \o DropDots(Tail(segs))

PathOf(raw) == [abs |-> raw.abs, parts |-> DropDots(raw.segs)]

IsAbsolute(p) == p.abs

\* Path.parents: every proper ancestor, down to "." (or "/")
Parents(p) ==
    {[abs |-> p.abs, parts |-> SubSeq(p.parts, 1, n)] : n \in 0..(Len(p.parts) - 1)}

DotPath == PathOf(RawPath(FALSE, <<".">>))

\* str.strip() is falsy: the empty string
IsBlank(raw) == raw.abs = FALSE /\ raw.segs = <<>>

----------------------------------------------------------------------------
(* Arguments and tools *)

Args(name, path) == [name |-> name, path |-> path]

EmptyArgs == Args("none", EmptyRaw)
GoodArgs == Args("str", RawPath(FALSE, <<"workspace", ".", "a">>))
TraversalArgs == Args("str", RawPath(FALSE, <<"..", "etc", "passwd">>))
BadBothArgs == Args("int", RawPath(FALSE, <<"..", "etc", "passwd">>))

ArgSet == {EmptyArgs, GoodArgs, TraversalArgs, BadBothArgs}

Workspace == RawPath(FALSE, <<"workspace">>)

ToolRow(risk, enabled, schema, allowed) ==
    [risk_level |-> risk, is_enabled |-> enabled,
     args_schema_json |-> schema, allowed_paths_json |-> allowed]

\* table tools; schema "strict" stands for
\* {"type":"object","required":["name"],"properties":{"name":{"type":"string"}}}
\* and "malformed" for a string that is not JSON
Registry ==
    [echo_test |-> ToolRow("read", 1, "none", <<>>),
     ws_tool   |-> ToolRow("exec_low", 1, "strict", <<Workspace>>),
     rm_tool   |-> ToolRow("write", 1, "strict", <<Workspace>>),
     bad_tool  |-> ToolRow("exec_high", 1, "malformed", <<>>),
     off_tool  |-> ToolRow("read", 0, "none", <<Workspace>>)]

ToolIds == DOMAIN Registry
GhostTool == "ghost"

get_tool(t) == IF t \in ToolIds THEN Registry[t] ELSE [risk_level |-> "absent"]

ToolFound(t) == get_tool(t).risk_level # "absent"

\* jsonschema.validate(args, schema): "ok", "invalid" (ValidationError)
\* or "error" (json.loads of the schema text raised)
js_validate(args, schema) ==
    CASE schema = "none" -> "ok"
      [] schema = "malformed" -> "error"
      [] schema = "strict" -> IF args.name = "str" THEN "ok" ELSE "invalid"

----------------------------------------------------------------------------
(* Submission-time validation (api/routes/tool_runs.py) *)

_requires_approval(risk_level) == risk_level \in {"write", "exec_high"}

\* only the key "path" of the argument map is path-like in this model
_extract_path_values(args) ==
    IF IsBlank(args.path) THEN <<>> ELSE <<args.path>>

_normalize_allowed_prefixes(allowed) ==
    LET kept == SelectSeq(allowed, LAMBDA x : ~IsBlank(x))
    IN  [i \in 1..Len(kept) |-> PathOf(kept[i])]

SeqRange(s) == {s[i] : i \in 1..Len(s)}

_path_is_allowed(raw, allowed_prefixes) ==
    LET candidate == PathOf(raw) IN
    IF allowed_prefixes = <<>> THEN TRUE
    ELSE IF IsAbsolute(candidate)
         THEN \E pref \in SeqRange(allowed_prefixes) :
                  IsAbsolute(pref) /\ (candidate = pref \/ pref \in Parents(candidate))
    ELSE IF \E i \in 1..Len(candidate.parts) : candidate.parts[i] = ".."
         THEN FALSE
    ELSE \E pref \in SeqRange(allowed_prefixes) :
             \/ pref = DotPath
             \/ candidate = pref
             \/ pref \in Parents(candidate)

_validate_args_and_paths(tool, args) ==
    LET v == IF tool.args_schema_json = "none" THEN "ok"
             ELSE js_validate(args, tool.args_schema_json)
        allowed_prefixes == _normalize_allowed_prefixes(tool.allowed_paths_json)
        pvs == _extract_path_values(args)
    IN  CASE v = "invalid" -> 400
          [] v = "error" -> 500
          [] OTHER ->
               IF \E i \in 1..Len(pvs) : ~_path_is_allowed(pvs[i], allowed_prefixes)
               THEN 403 ELSE 200

----------------------------------------------------------------------------
(* Risk policy engine (api/policy/engine.py) *)

Decision(allowed, requires_approval, reason) ==
    [allowed |-> allowed, requires_approval |-> requires_approval, reason |-> reason]

APPROVAL_REQUIRED_RISKS == {"exec_high", "write"}

RiskLevels == {"read", "exec_low", "exec_high", "write"}

\* a schema text that is not JSON parses to the empty schema
_parse_schema(schema_json) ==
    IF schema_json \in {"none", "malformed"} THEN "none" ELSE schema_json

\* variant: nothing is validated
_validate_schema_AlwaysOk(args, schema) == TRUE

_validate_schema(args, schema) ==
    IF schema = "none" THEN TRUE ELSE js_validate(args, schema) = "ok"

\* variant: the schema is validated before the risk level is looked at
decide_execute_SchemaFirst(scopes, tool, args) ==
    IF "tool:execute" \notin scopes
    THEN Decision(FALSE, FALSE, "missing required scope: tool:execute")
    ELSE IF tool.is_enabled # 1
    THEN Decision(FALSE, FALSE, "tool is disabled")
    ELSE IF ~_validate_schema(args, _parse_schema(tool.args_schema_json))
    THEN Decision(FALSE, FALSE, "Schema validation failed")
    ELSE IF tool.risk_level \in APPROVAL_REQUIRED_RISKS
    THEN Decision(TRUE, TRUE, "requires approval")
    ELSE Decision(TRUE, FALSE, "policy check passed")

\* variant: the risk level is looked at before the scope and the enabled flag
decide_execute_RiskFirst(scopes, tool, args) ==
    IF tool.risk_level \in APPROVAL_REQUIRED_RISKS
    THEN Decision(TRUE, TRUE, "requires approval")
    ELSE IF "tool:execute" \notin scopes
    THEN Decision(FALSE, FALSE, "missing required scope: tool:execute")
    ELSE IF tool.is_enabled # 1
    THEN Decision(FALSE, FALSE, "tool is disabled")
    ELSE IF ~_validate_schema(args, _parse_schema(tool.args_schema_json))
    THEN Decision(FALSE, FALSE, "Schema validation failed")
    ELSE Decision(TRUE, FALSE, "policy check passed")

decide_execute(scopes, tool, args) ==
    IF "tool:execute" \notin scopes
    THEN Decision(FALSE, FALSE, "missing required scope: tool:execute")
    ELSE IF tool.is_enabled # 1
    THEN Decision(FALSE, FALSE, "tool is disabled")
    ELSE LET risk_level == IF tool.risk_level \in RiskLevels
                           THEN tool.risk_level ELSE "exec_low"
         IN  IF risk_level \in APPROVAL_REQUIRED_RISKS
             THEN Decision(TRUE, TRUE, "requires approval")
             ELSE IF ~_validate_schema(args, _parse_schema(tool.args_schema_json))
                  THEN Decision(FALSE, FALSE, "Schema validation failed")
                  ELSE Decision(TRUE, FALSE, "policy check passed")

----------------------------------------------------------------------------
(* AgentExecutor (agent/executor.py) *)

\* step ids in plan order; they are unique within a plan
StepIdAt == <<"A", "B", "C", "D">>

StepIds == {StepIdAt[i] : i \in 1..MaxSteps}

PlanStep(id, deps, retry, on_fail) ==
    [step_id |-> id, depends_on |-> deps, retry_on_fail |-> retry, on_fail |-> on_fail]

\* run_id and approval_id are "" where the code leaves them None
StepResult(status, error, run_id, approval_id) ==
    [status |-> status, error |-> error, run_id |-> run_id, approval_id |-> approval_id]

NoStepResult == StepResult("none", "", "", "")

\* variant: a dependency only has to have a result
_dependencies_satisfied_PresenceOnly(step, results) ==
    \A dep_id \in step.depends_on : results[dep_id].status # "none"

_dependencies_satisfied(step, results) ==
    \A dep_id \in step.depends_on :
        results[dep_id].status # "none" /\ results[dep_id].status = "completed"

\* what api.create_run does: raises, or returns a run with this status
CreateRunResponses == {"raise", "queued", "pending_approval"}

\* what _wait_for_completion ends with: a run status, asyncio.TimeoutError,
\* or another exception raised by api.get_run_status
FinalStatuses == {"succeeded", "failed", "denied", "pending_approval", "timeout", "raise"}

\* _execute_step for one behaviour of its collaborators: resp is the answer of
\* api.create_run, approved the answer of approval.wait_for_approval, final
\* the end of _wait_for_completion
\* variant: an exception of the run client is swallowed, the step counts
\* as completed
_execute_step_SwallowsException(has_approval, resp, approved, final) ==
    IF resp = "raise" \/ final = "raise" THEN StepResult("completed", "exception", "", "")
    ELSE IF resp = "pending_approval" THEN StepResult("blocked", "approval needed", "run", "appr")
    ELSE IF final = "succeeded" THEN StepResult("completed", "", "run", "")
    ELSE StepResult("failed", "run failed", "run", "")

_execute_step(has_approval, resp, approved, final) ==
    IF resp = "raise" THEN StepResult("failed", "exception", "", "")
    ELSE IF resp = "pending_approval" /\ has_approval /\ ~approved
    THEN StepResult("blocked", "declined or timed out", "", "")
    ELSE IF resp = "pending_approval" /\ ~has_approval
    THEN StepResult("blocked", "approval needed", "run", "appr")
    ELSE IF final = "timeout" THEN StepResult("failed", "timeout", "", "")
    ELSE IF final = "raise" THEN StepResult("failed", "exception", "", "")
    ELSE IF final = "succeeded" THEN StepResult("completed", "", "run", "")
    ELSE StepResult("failed", "run failed", "run", "")

\* variant: every failed step is retried
ShouldRetry_AnyFailure(step, result) == result.status = "failed"

\* lines 82-88: the retry condition
ShouldRetry(step, result) == result.status = "failed" /\ step.retry_on_fail

\* _wait_for_completion: the local elapsed and the argument timeout
Wait(elapsed, timeout) == [elapsed |-> elapsed, timeout |-> timeout]

NoWait == Wait(0, 0)

\* line 262: interval = 2
PollInterval == 2

\* line 265: the statuses that end the wait
WaitEndStatuses == {"succeeded", "failed", "denied", "blocked", "pending_approval"}

\* what one call of api.get_run_status can give: a status, or an exception
PollAnswers == {"queued", "running", "raise"} \cup WaitEndStatuses

\* variant: the wait never gives up
WaitExpired_Never(w) == FALSE

\* line 263: the loop condition elapsed < timeout no longer holds
WaitExpired(w) == w.elapsed >= w.timeout

\* variant: the rollback marks every completed step as undone
_rollback_Undo(results) ==
    [id \in DOMAIN results |->
        IF results[id].status = "completed"
        THEN [results[id] EXCEPT !.status = "rolled_back"]
        ELSE results[id]]

\* lines 298-316: _rollback only logs, the results it is given stay as they are
_rollback(results) == results

\* variant: a failure never ends the loop
HaltsOnFailure_Never(step) == FALSE

\* lines 91-98: "stop" and "rollback" break out of the loop
HaltsOnFailure(step) == step.on_fail \in {"stop", "rollback"}

RecordedStatuses(results) ==
    {results[id].status : id \in {x \in DOMAIN results : results[x].status # "none"}}

\* variant: any failed step makes the whole result failed
_get_overall_status_FailedWins(results) ==
    LET statuses == RecordedStatuses(results) IN
    IF statuses = {} THEN "failed"
    ELSE IF statuses = {"completed"} THEN "success"
    ELSE IF "failed" \in statuses THEN "failed"
    ELSE IF "blocked" \in statuses THEN "blocked"
    ELSE "partial"

_get_overall_status(results) ==
    LET statuses == RecordedStatuses(results) IN
    IF statuses = {} THEN "failed"
    ELSE IF statuses = {"completed"} THEN "success"
    ELSE IF "failed" \in statuses
         THEN IF "completed" \in statuses THEN "partial" ELSE "failed"
    ELSE IF "blocked" \in statuses THEN "blocked"
    ELSE "partial"

----------------------------------------------------------------------------
(* Rows, jobs, requests *)

NoExit == -1

NoRunRow ==
    [tool |-> "", args |-> EmptyArgs, status |-> "absent", exit_code |-> NoExit,
     error_msg |-> "", approval_request_id |-> 0]

NoApproval ==
    [status |-> "absent", tool_id |-> "", args |-> EmptyArgs, decision_note |-> ""]

RunExists(r) == r \in RunIds /\ runs[r].status # "absent"

ApprovalExists(r) == r \in RunIds /\ approvals[r].status # "absent"

Job(r, t, a) == [run_id |-> r, tool_id |-> t, args |-> a]

NoJob == Job(GhostRun, "", EmptyArgs)

NoReq == [op |-> "", tool_id |-> "", args |-> EmptyArgs, run_id |-> 0,
          status |-> "", note |-> "", origin |-> ""]

Resp(op, code, r, status) == [op |-> op, code |-> code, run_id |-> r, status |-> status]

NoResp == Resp("", 0, 0, "")

Event(etype, r, status) == [event_type |-> etype, resource_id |-> r, status |-> status]

log_event(etype, r, status) == Append(audit, Event(etype, r, status))

Notes == {"", "unsafe"}

TerminalStatuses == {"succeeded", "failed", "denied"}

----------------------------------------------------------------------------
(* Initial state: empty tables, empty queue, idle handlers and worker *)

InitPipe ==
    /\ runs = [r \in RunIds |-> NoRunRow]
    /\ approvals = [r \in RunIds |-> NoApproval]
    /\ queue = {}
    /\ audit = <<>>
    /\ nextRun = 1
    /\ hpc = [h \in Handlers |-> "idle"]
    /\ hreq = [h \in Handlers |-> NoReq]
    /\ lastResp = NoResp
    /\ wpc = "idle"
    /\ wjob = NoJob
    /\ wres = [run_id |-> GhostRun, outcome |-> "none"]
    /\ deliveries = 0
    /\ directs = 0
    /\ crashes = 0

NoDecision == Decision(FALSE, FALSE, "")

InitPolicyIdle ==
    /\ dpc = "off"
    /\ dIn = [scopes |-> {}, tool |-> Registry.echo_test, args |-> EmptyArgs]
    /\ dOut = NoDecision

InitPlanIdle ==
    /\ plan = <<>>
    /\ approval = FALSE
    /\ step_results = [id \in StepIds |-> NoStepResult]
    /\ ppc = "off"
    /\ pidx = 1
    /\ tries = [id \in StepIds |-> <<>>]
    /\ overall = ""
    /\ summary = ""
    /\ wait = NoWait

InitExecIdle ==
    /\ epc = "off"
    /\ call = [run_id |-> GhostRun, tool_id |-> "",
               executor |-> [raised |-> FALSE, exit_code |-> NoExit], sink |-> <<>>]
    /\ run_row = [status |-> "absent", finished_at |-> FALSE, exit_code |-> NoExit,
                  error_msg |-> ""]
    /\ events = <<>>
    /\ caught = ""
    /\ job_result = "none"

\* ConversationContext.__init__
InitContext ==
    /\ history = <<>>
    /\ added = <<>>
    /\ working_directory = ""
    /\ project_type = ""

InitMoreIdle == InitExecIdle /\ InitContext

Init == InitPipe /\ InitPolicyIdle /\ InitPlanIdle /\ InitMoreIdle

----------------------------------------------------------------------------
(* create_tool_run_endpoint (tool_runs.py) and _LocalRunClient.create_run  *)
(* (agent.py).  origin "api" validates arguments and paths first; origin   *)
(* "agent" does not.                                                       *)

\* handlers are interchangeable: a new request goes to the first idle one
Accepts(h) ==
    /\ hpc[h] = "idle"
    /\ \A g \in Handlers : g < h => hpc[g] # "idle"

Finish(h, resp) ==
    /\ hpc' = [hpc EXCEPT ![h] = "idle"]
    /\ hreq' = [hreq EXCEPT ![h] = NoReq]
    /\ lastResp' = resp

create_approval(r, t, a) ==
    [approvals EXCEPT ![r] =
        [status |-> "pending", tool_id |-> t, args |-> a, decision_note |-> ""]]

\* the handler up to and including create_approval's commit
SubmitBegin(h, t, a, origin) ==
    /\ Accepts(h)
    /\ LET tool == get_tool(t)
           code == IF ~ToolFound(t) \/ tool.is_enabled = 0 THEN 404
                   ELSE IF origin = "api" THEN _validate_args_and_paths(tool, a)
                   ELSE 200
       IN  IF code # 200
           THEN /\ Finish(h, Resp("submit", code, 0, "rejected"))
                /\ UNCHANGED <<runs, approvals, queue, audit, nextRun>>
           ELSE /\ nextRun <= MaxRuns
                /\ LET status == IF _requires_approval(tool.risk_level)
                                 THEN "pending_approval" ELSE "queued"
                   IN  /\ approvals' = IF status = "pending_approval"
                                       THEN create_approval(nextRun, t, a)
                                       ELSE approvals
                       /\ hreq' = [hreq EXCEPT ![h] =
                                      [op |-> "submit", tool_id |-> t, args |-> a,
                                       run_id |-> nextRun, status |-> status,
                                       note |-> "", origin |-> origin]]
                /\ nextRun' = nextRun + 1
                /\ hpc' = [hpc EXCEPT ![h] = "s_run"]
                /\ UNCHANGED <<runs, queue, audit, lastResp>>
    /\ UNCHANGED <<wpc, wjob, wres, deliveries, directs, crashes, polVars>>

create_tool_run(r, t, a, status, approval_id) ==
    [runs EXCEPT ![r] =
        [tool |-> t, args |-> a, status |-> status, exit_code |-> NoExit,
         error_msg |-> "", approval_request_id |-> approval_id]]

SubmitCreateRun(h) ==
    /\ hpc[h] = "s_run"
    /\ LET q == hreq[h] IN
       /\ runs' = create_tool_run(q.run_id, q.tool_id, q.args, q.status,
                                  IF q.status = "pending_approval" THEN q.run_id ELSE 0)
       /\ IF q.status = "queued"
          THEN /\ hpc' = [hpc EXCEPT ![h] = "s_enqueue"]
               /\ UNCHANGED <<hreq, lastResp>>
          ELSE IF q.origin = "api"
          THEN /\ hpc' = [hpc EXCEPT ![h] = "s_respond"]
               /\ UNCHANGED <<hreq, lastResp>>
          ELSE Finish(h, Resp("submit", 200, q.run_id, "pending_approval"))
    /\ UNCHANGED <<approvals, queue, audit, nextRun, wpc, wjob, wres,
                   deliveries, directs, crashes, polVars>>

SubmitEnqueue(h) ==
    /\ hpc[h] = "s_enqueue"
    /\ LET q == hreq[h] IN
       /\ queue' = queue \cup {Job(q.run_id, q.tool_id, q.args)}
       /\ IF q.origin = "api"
          THEN /\ hpc' = [hpc EXCEPT ![h] = "s_respond"]
               /\ UNCHANGED <<hreq, lastResp>>
          ELSE Finish(h, Resp("submit", 200, q.run_id, "queued"))
    /\ UNCHANGED <<runs, approvals, audit, nextRun, wpc, wjob, wres,
                   deliveries, directs, crashes, polVars>>

\* the endpoint reads the row back and answers with the stored status
SubmitRespond(h) ==
    /\ hpc[h] = "s_respond"
    /\ Finish(h, Resp("submit", 200, hreq[h].run_id, runs[hreq[h].run_id].status))
    /\ UNCHANGED <<runs, approvals, queue, audit, nextRun, wpc, wjob, wres,
                   deliveries, directs, crashes, polVars>>

----------------------------------------------------------------------------
(* approve / deny (api/approvals/router.py) *)

\* variant: the handlers do not look at the request's status
DecisionGuard_NoPendingCheck(row) ==
    IF row.status = "absent" THEN 404 ELSE 200

\* the status the decision handlers answer with after reading the row
DecisionGuard(row) ==
    IF row.status = "absent" THEN 404
    ELSE IF row.status # "pending" THEN 409
    ELSE 200

DecideBegin(h, r, note, op, next) ==
    /\ Accepts(h)
    /\ LET row == approvals[r]
           code == DecisionGuard(row)
       IN  IF code # 200
           THEN Finish(h, Resp(op, code, r, "rejected"))
           ELSE /\ hpc' = [hpc EXCEPT ![h] = next]
                /\ hreq' = [hreq EXCEPT ![h] =
                               [op |-> op, tool_id |-> row.tool_id, args |-> row.args,
                                run_id |-> r, status |-> "", note |-> note,
                                origin |-> "api"]]
                /\ UNCHANGED lastResp
    /\ UNCHANGED <<runs, approvals, queue, audit, nextRun, wpc, wjob, wres,
                   deliveries, directs, crashes, polVars>>

ApproveBegin(h, r, note) == DecideBegin(h, r, note, "approve", "a_approval")

\* UPDATE approval_requests SET status='approved' ...; commit
ApproveWriteApproval(h) ==
    /\ hpc[h] = "a_approval"
    /\ approvals' = [approvals EXCEPT ![hreq[h].run_id].status = "approved",
                                      ![hreq[h].run_id].decision_note = hreq[h].note]
    /\ hpc' = [hpc EXCEPT ![h] = "a_run"]
    /\ UNCHANGED <<runs, queue, audit, nextRun, hreq, lastResp, wpc, wjob, wres,
                   deliveries, directs, crashes, polVars>>

\* the row the approve handler leaves in tool_runs
ApprovedRunRow(row) == [row EXCEPT !.status = "queued"]

\* UPDATE tool_runs SET status='queued' WHERE id=?; commit
ApproveWriteRun(h) ==
    /\ hpc[h] = "a_run"
    /\ runs' = IF RunExists(hreq[h].run_id)
               THEN [runs EXCEPT ![hreq[h].run_id] = ApprovedRunRow(@)]
               ELSE runs
    /\ hpc' = [hpc EXCEPT ![h] = "a_enqueue"]
    /\ UNCHANGED <<approvals, queue, audit, nextRun, hreq, lastResp, wpc, wjob, wres,
                   deliveries, directs, crashes, polVars>>

\* _queue().enqueue(..., user_id=row.get("created_by_user_id")): row is a
\* sqlite3.Row, which has no attribute get; the AttributeError is raised
\* while the arguments are evaluated, so nothing is enqueued
ApproveEnqueue(h) ==
    /\ hpc[h] = "a_enqueue"
    /\ Finish(h, Resp("approve", 500, hreq[h].run_id, "AttributeError"))
    /\ UNCHANGED <<runs, approvals, queue, audit, nextRun, wpc, wjob, wres,
                   deliveries, directs, crashes, polVars>>

DenyBegin(h, r, note) == DecideBegin(h, r, note, "deny", "d_write")

\* variant: the decision note is dropped
DeniedRunRow_NoNote(row, note) ==
    [row EXCEPT !.status = "denied", !.error_msg = "denied"]

\* the row the deny handler leaves in tool_runs
DeniedRunRow(row, note) ==
    [row EXCEPT !.status = "denied",
                !.error_msg = IF note = "" THEN "denied" ELSE note]

\* both UPDATEs, then one commit
DenyWrite(h) ==
    /\ hpc[h] = "d_write"
    /\ approvals' = [approvals EXCEPT ![hreq[h].run_id].status = "denied",
                                      ![hreq[h].run_id].decision_note = hreq[h].note]
    /\ runs' = IF RunExists(hreq[h].run_id)
               THEN [runs EXCEPT ![hreq[h].run_id] = DeniedRunRow(@, hreq[h].note)]
               ELSE runs
    /\ Finish(h, Resp("deny", 200, hreq[h].run_id, "denied"))
    /\ UNCHANGED <<queue, audit, nextRun, wpc, wjob, wres,
                   deliveries, directs, crashes, polVars>>

\* the API process dies inside a handler: committed writes stay, the rest
\* of the handler never runs and no response is sent
Crash(h) ==
    /\ hpc[h] # "idle"
    /\ crashes < MaxCrashes
    /\ crashes' = crashes + 1
    /\ hpc' = [hpc EXCEPT ![h] = "idle"]
    /\ hreq' = [hreq EXCEPT ![h] = NoReq]
    /\ UNCHANGED <<runs, approvals, queue, audit, nextRun, lastResp, wpc, wjob, wres,
                   deliveries, directs, polVars>>

----------------------------------------------------------------------------
(* The work queue *)

\* run_tool_job is a plain RQ job: anything holding the queue can enqueue
\* it for any run id and tool id
DirectEnqueue(r, t) ==
    /\ directs < MaxDirect
    /\ directs' = directs + 1
    /\ \/ /\ RunExists(r)
          /\ t \in {runs[r].tool, "rm_tool", GhostTool}
          /\ queue' = queue \cup {Job(r, t, runs[r].args)}
       \/ /\ r = GhostRun
          /\ t = "echo_test"
          /\ queue' = queue \cup {Job(r, t, EmptyArgs)}
    /\ UNCHANGED <<runs, approvals, audit, nextRun, hpc, hreq, lastResp, wpc, wjob,
                   wres, deliveries, crashes, polVars>>

\* at-least-once delivery: a delivered job may stay in the queue
Deliver(j) ==
    /\ wpc = "idle"
    /\ j \in queue
    /\ deliveries < MaxDeliveries
    /\ deliveries' = deliveries + 1
    /\ wjob' = j
    /\ wpc' = "check"
    /\ queue' \in {queue \ {j}, queue}
    /\ UNCHANGED <<runs, approvals, audit, nextRun, hpc, hreq, lastResp, wres,
                   directs, crashes, polVars>>

----------------------------------------------------------------------------
(* The allow-list check of run_tool_job (worker/jobs_v2.py, _is_allowed)    *)

\* Path(env.get("WORKSPACE") or os.getcwd()), an absolute directory
BaseDir == [abs |-> TRUE, parts |-> <<"srv">>]

\* base / p
JoinPath(base, p) ==
    IF p.abs THEN p ELSE [abs |-> TRUE, parts |-> base.parts \o p.parts]

RECURSIVE Collapse(_, _)
Collapse(done, rest) ==
    IF rest = <<>> THEN done
    ELSE IF Head(rest) = ".."
         THEN Collapse(IF done = <<>> THEN <<>> ELSE SubSeq(done, 1, Len(done) - 1),
                       Tail(rest))
         ELSE Collapse(Append(done, Head(rest)), Tail(rest))

\* Path.resolve(strict=False) of an absolute path in a tree without symlinks
Resolve(p) == [abs |-> TRUE, parts |-> Collapse(<<>>, p.parts)]

_is_allowed(raw, allowed_prefixes, base) ==
    LET candidate == Resolve(JoinPath(base, PathOf(raw)))
        Pref(x) == Resolve(JoinPath(base, IF x = DotPath THEN base ELSE x))
    IN  IF allowed_prefixes = <<>> THEN TRUE
        ELSE \E x \in SeqRange(allowed_prefixes) :
                 candidate = Pref(x) \/ Pref(x) \in Parents(candidate)

----------------------------------------------------------------------------
(* run_tool_job (worker/jobs_v2.py) and is_run_approved (policy_enforce.py) *)

\* latest approval request of the run; no row means "no approval required"
is_run_approved(r) ==
    IF ~ApprovalExists(r) THEN TRUE ELSE approvals[r].status = "approved"

SetRun(r, row) == IF RunExists(r) THEN [runs EXCEPT ![r] = row] ELSE runs

JobDone(outcome) ==
    /\ wpc' = "idle"
    /\ wjob' = NoJob
    /\ wres' = [run_id |-> wjob.run_id, outcome |-> outcome]

\* line 50: the approval re-check
WCheck ==
    /\ wpc = "check"
    /\ wpc' = IF is_run_approved(wjob.run_id) THEN "load" ELSE "blocked"
    /\ UNCHANGED <<runs, approvals, queue, audit, nextRun, hpc, hreq, lastResp,
                   wjob, wres, deliveries, directs, crashes, polVars>>

\* lines 52-76: not approved; the run's status is rewritten from the approval row
WBlocked ==
    /\ wpc = "blocked"
    /\ LET r == wjob.run_id
           approval_status == IF ApprovalExists(r) THEN approvals[r].status ELSE "none"
           new_status == IF approval_status = "denied" THEN "denied"
                         ELSE "pending_approval"
       IN  /\ runs' = SetRun(r, [runs[r] EXCEPT !.status = new_status])
           /\ audit' = log_event("run.blocked", r, "fail")
    /\ JobDone("returned")
    /\ UNCHANGED <<approvals, queue, nextRun, hpc, hreq, lastResp,
                   deliveries, directs, crashes, polVars>>

\* lines 79-88: tool not found; failed, no audit event
WToolMissing ==
    /\ wpc = "load"
    /\ ~ToolFound(wjob.tool_id)
    /\ runs' = SetRun(wjob.run_id, [runs[wjob.run_id] EXCEPT !.status = "failed"])
    /\ JobDone("returned")
    /\ UNCHANGED <<approvals, queue, audit, nextRun, hpc, hreq, lastResp,
                   deliveries, directs, crashes, polVars>>

\* lines 91-99: no tool_runs row
WRunMissing ==
    /\ wpc = "load"
    /\ ToolFound(wjob.tool_id)
    /\ ~RunExists(wjob.run_id)
    /\ JobDone("returned")
    /\ UNCHANGED <<runs, approvals, queue, audit, nextRun, hpc, hreq, lastResp,
                   deliveries, directs, crashes, polVars>>

\* lines 101-106: UPDATE tool_runs SET status='running'
WMarkRunning ==
    /\ wpc = "load"
    /\ ToolFound(wjob.tool_id)
    /\ RunExists(wjob.run_id)
    /\ runs' = [runs EXCEPT ![wjob.run_id].status = "running"]
    /\ wpc' = "prepare"
    /\ UNCHANGED <<approvals, queue, audit, nextRun, hpc, hreq, lastResp,
                   wjob, wres, deliveries, directs, crashes, polVars>>

\* lines 116-120: the schema re-validation of the job's arguments
WorkerSchemaCheck(tool, args) ==
    IF tool.args_schema_json = "none" THEN "ok"
    ELSE js_validate(args, tool.args_schema_json)

\* lines 121-140: ValidationError
WInvalidArgs ==
    /\ wpc = "prepare"
    /\ WorkerSchemaCheck(get_tool(wjob.tool_id), wjob.args) = "invalid"
    /\ runs' = SetRun(wjob.run_id, [runs[wjob.run_id] EXCEPT
                                       !.status = "failed",
                                       !.error_msg = "args_schema invalid"])
    /\ audit' = log_event("run.invalid_args", wjob.run_id, "fail")
    /\ JobDone("returned")
    /\ UNCHANGED <<approvals, queue, nextRun, hpc, hreq, lastResp,
                   deliveries, directs, crashes, polVars>>

\* lines 141-150: any other exception of the schema step; failed, no audit event
WSchemaError ==
    /\ wpc = "prepare"
    /\ WorkerSchemaCheck(get_tool(wjob.tool_id), wjob.args) = "error"
    /\ runs' = SetRun(wjob.run_id, [runs[wjob.run_id] EXCEPT
                                       !.status = "failed",
                                       !.error_msg = "args_schema error"])
    /\ JobDone("returned")
    /\ UNCHANGED <<approvals, queue, audit, nextRun, hpc, hreq, lastResp,
                   deliveries, directs, crashes, polVars>>

\* line 200: base_dir = Path(env.get("WORKSPACE") or os.getcwd()) reads the
\* local variable env, which is first assigned at line 225: UnboundLocalError.
\* The statement is outside every try block, so the exception leaves
\* run_tool_job; lines 201-306 (path check, executor, result) never run.
WEnvUnbound ==
    /\ wpc = "prepare"
    /\ WorkerSchemaCheck(get_tool(wjob.tool_id), wjob.args) = "ok"
    /\ JobDone("raised")
    /\ UNCHANGED <<runs, approvals, queue, audit, nextRun, hpc, hreq, lastResp,
                   deliveries, directs, crashes, polVars>>

----------------------------------------------------------------------------
(* The pipeline *)

Input(t, a, origin) == [tool_id |-> t, args |-> a, origin |-> origin]

\* the submissions the model tries: every outcome of the endpoint's checks,
\* and the plan-step path with arguments the endpoint would have refused
SubmitInputs ==
    {Input("echo_test", EmptyArgs, "api"),
     Input("echo_test", TraversalArgs, "api"),
     Input("ws_tool", GoodArgs, "api"),
     Input("ws_tool", TraversalArgs, "api"),
     Input("ws_tool", BadBothArgs, "api"),
     Input("rm_tool", GoodArgs, "api"),
     Input("rm_tool", TraversalArgs, "api"),
     Input("bad_tool", EmptyArgs, "api"),
     Input("off_tool", TraversalArgs, "api"),
     Input("ws_tool", TraversalArgs, "agent"),
     Input("ws_tool", BadBothArgs, "agent"),
     Input("rm_tool", EmptyArgs, "agent"),
     Input("bad_tool", EmptyArgs, "agent"),
     Input("off_tool", EmptyArgs, "agent")}

Next ==
    \/ \E h \in Handlers, i \in SubmitInputs :
           SubmitBegin(h, i.tool_id, i.args, i.origin)
    \/ \E h \in Handlers : SubmitCreateRun(h)
    \/ \E h \in Handlers : SubmitEnqueue(h)
    \/ \E h \in Handlers : SubmitRespond(h)
    \/ \E h \in Handlers, r \in RunIds, n \in Notes : ApproveBegin(h, r, n)
    \/ \E h \in Handlers : ApproveWriteApproval(h)
    \/ \E h \in Handlers : ApproveWriteRun(h)
    \/ \E h \in Handlers : ApproveEnqueue(h)
    \/ \E h \in Handlers, r \in RunIds, n \in Notes : DenyBegin(h, r, n)
    \/ \E h \in Handlers : DenyWrite(h)
    \/ \E h \in Handlers : Crash(h)
    \/ \E r \in RunIds \cup {GhostRun}, t \in ToolIds \cup {GhostTool} : DirectEnqueue(r, t)
    \/ \E j \in queue : Deliver(j)
    \/ WCheck
    \/ WBlocked
    \/ WToolMissing
    \/ WRunMissing
    \/ WMarkRunning
    \/ WInvalidArgs
    \/ WSchemaError
    \/ WEnvUnbound

Spec == Init /\ [][Next]_vars

----------------------------------------------------------------------------
(* decide_execute applied to every input of a bounded set *)

Scopes == {"tool:execute", "runs:read"}

PolicyTools ==
    {ToolRow(risk, enabled, schema, <<>>) :
        risk \in RiskLevels \cup {"bogus"}, enabled \in {0, 1},
        schema \in {"none", "strict", "malformed"}}

InitPolicy ==
    /\ InitPipe
    /\ InitPlanIdle
    /\ InitMoreIdle
    /\ dpc = "input"
    /\ dIn \in [scopes : SUBSET Scopes, tool : PolicyTools, args : ArgSet]
    /\ dOut = NoDecision

Decide ==
    /\ dpc = "input"
    /\ dOut' = decide_execute(dIn.scopes, dIn.tool, dIn.args)
    /\ dpc' = "decided"
    /\ UNCHANGED <<dIn, pipeVars, planVars, moreVars>>

NextPolicy == Decide

SpecPolicy == InitPolicy /\ [][NextPolicy]_vars

----------------------------------------------------------------------------
(* Both allow-list checks applied to every input of a bounded set *)

PathCandidates ==
    {RawPath(FALSE, <<"..", "x">>),
     RawPath(FALSE, <<"a", "b">>),
     RawPath(FALSE, <<".">>),
     RawPath(FALSE, <<"workspace">>),
     RawPath(FALSE, <<"workspace", ".", "a">>),
     RawPath(FALSE, <<"workspace", "..", "workspace", "a">>),
     RawPath(FALSE, <<"workspace", "..", "..", "etc">>),
     RawPath(TRUE, <<"srv", "workspace", "a">>),
     RawPath(TRUE, <<"srv", "..", "etc">>),
     RawPath(TRUE, <<"etc", "passwd">>)}

AllowLists ==
    {<<>>,
     <<EmptyRaw>>,
     <<Workspace>>,
     <<RawPath(FALSE, <<".">>)>>,
     <<RawPath(FALSE, <<"..">>)>>,
     <<RawPath(TRUE, <<>>)>>,
     <<RawPath(TRUE, <<"srv", "workspace">>)>>,
     <<EmptyRaw, Workspace, RawPath(TRUE, <<"etc">>)>>}

PathVerdict(api, worker) == [api |-> api, worker |-> worker]

InitPath ==
    /\ InitPipe
    /\ InitPlanIdle
    /\ InitMoreIdle
    /\ dpc = "path_input"
    /\ dIn \in [raw : PathCandidates, allowed : AllowLists]
    /\ dOut = NoDecision

CheckPath ==
    /\ dpc = "path_input"
    /\ dOut' = PathVerdict(
                   _path_is_allowed(dIn.raw, _normalize_allowed_prefixes(dIn.allowed)),
                   _is_allowed(dIn.raw, _normalize_allowed_prefixes(dIn.allowed), BaseDir))
    /\ dpc' = "path_checked"
    /\ UNCHANGED <<dIn, pipeVars, planVars, moreVars>>

NextPath == CheckPath

SpecPath == InitPath /\ [][NextPath]_vars

----------------------------------------------------------------------------
(* execute_plan run on every plan of a bounded set, against every behaviour *)
(* of the run client and the approval handler                               *)

\* dependencies a step may name: none, the first step, the step before it,
\* or (for the first step) a step that comes later or is not in the plan
DepChoices(i) ==
    IF i = 1 THEN {{}, {StepIdAt[2]}}
    ELSE {{}, {StepIdAt[1]}, {StepIdAt[i - 1]}}

StepChoices(i) ==
    IF i <= 2
    THEN {PlanStep(StepIdAt[i], d, r, f) :
            d \in DepChoices(i), r \in BOOLEAN, f \in {"stop", "continue", "rollback"}}
    ELSE {PlanStep(StepIdAt[i], d, FALSE, "stop") : d \in DepChoices(i)}

Plans ==
    UNION {{p \in [1..n -> UNION {StepChoices(i) : i \in 1..n}] :
               \A i \in 1..n : p[i] \in StepChoices(i)} : n \in 0..MaxSteps}

InitPlan ==
    /\ InitPipe
    /\ InitPolicyIdle
    /\ InitMoreIdle
    /\ plan \in Plans
    /\ approval \in BOOLEAN
    /\ step_results = [id \in StepIds |-> NoStepResult]
    /\ ppc = "loop"
    /\ pidx = 1
    /\ tries = [id \in StepIds |-> <<>>]
    /\ overall = ""
    /\ summary = ""
    /\ wait = NoWait

\* variant: the loop works on the last step of the plan first
CurrentStep_Last == plan[Len(plan)]

\* line 64: for step in plan.steps
CurrentStep == plan[pidx]

\* lines 68-76: dependency not met, the step is recorded as skipped
PlanSkipStep ==
    /\ ppc = "loop"
    /\ pidx <= Len(plan)
    /\ ~_dependencies_satisfied(CurrentStep, step_results)
    /\ step_results' = [step_results EXCEPT ![CurrentStep.step_id] =
                            StepResult("skipped", "dependency not completed", "", "")]
    /\ pidx' = pidx + 1
    /\ UNCHANGED <<plan, approval, ppc, tries, overall, summary, pipeVars, moreVars, wait, dpc, dIn, dOut>>

\* one call of _execute_step for the current step
Attempt(next) ==
    \E resp \in CreateRunResponses, approved \in BOOLEAN, final \in FinalStatuses :
        LET result == _execute_step(approval, resp, approved, final) IN
        /\ step_results' = [step_results EXCEPT ![CurrentStep.step_id] = result]
        /\ tries' = [tries EXCEPT ![CurrentStep.step_id] = Append(@, result.status)]
        /\ ppc' = next
        /\ UNCHANGED <<plan, approval, pidx, overall, summary, pipeVars, moreVars, wait, dpc, dIn, dOut>>

\* lines 78-80
PlanExecuteStep ==
    /\ ppc = "loop"
    /\ pidx <= Len(plan)
    /\ _dependencies_satisfied(CurrentStep, step_results)
    /\ Attempt("attempted")

\* lines 83-90
PlanRetryStep ==
    /\ ppc = "attempted"
    /\ ShouldRetry(CurrentStep, step_results[CurrentStep.step_id])
    /\ Attempt("settled")

\* lines 83, 91-99: break on a final failure, otherwise the next step
PlanAfterStep ==
    /\ \/ ppc = "settled"
       \/ ppc = "attempted"
            /\ ~ShouldRetry(CurrentStep, step_results[CurrentStep.step_id])
    /\ IF step_results[CurrentStep.step_id].status = "failed"
            /\ HaltsOnFailure(CurrentStep)
       THEN ppc' = (IF CurrentStep.on_fail = "rollback" THEN "rollback" ELSE "finish")
                /\ pidx' = pidx
       ELSE ppc' = "loop" /\ pidx' = pidx + 1
    /\ UNCHANGED <<plan, approval, step_results, tries, overall, summary, pipeVars, moreVars, wait,
                   dpc, dIn, dOut>>

\* lines 95-98: await self._rollback(step_results), then break
PlanRollback ==
    /\ ppc = "rollback"
    /\ step_results' = _rollback(step_results)
    /\ ppc' = "finish"
    /\ UNCHANGED <<plan, approval, pidx, tries, overall, summary, pipeVars, moreVars, wait,
                   dpc, dIn, dOut>>

\* lines 102-122
PlanFinish ==
    /\ ppc = "finish" \/ (ppc = "loop" /\ pidx > Len(plan))
    /\ overall' = _get_overall_status(step_results)
    /\ summary' = "generated"
    /\ ppc' = "done"
    /\ UNCHANGED <<plan, approval, step_results, pidx, tries, pipeVars, moreVars, wait,
                   dpc, dIn, dOut>>

\* an exception escapes inside the try of execute_plan (lines 64-122), outside
\* _execute_step, which contains its own
PlanRaise ==
    /\ ppc \in {"loop", "attempted", "settled", "rollback", "finish"}
    /\ ppc' = "raised"
    /\ UNCHANGED <<plan, approval, step_results, pidx, tries, overall, summary, pipeVars,
                   moreVars, wait, dpc, dIn, dOut>>

\* lines 126-135: the except clause returns the failed ExecutionResult
PlanExcept ==
    /\ ppc = "raised"
    /\ overall' = "failed"
    /\ summary' = "exception"
    /\ ppc' = "done"
    /\ UNCHANGED <<plan, approval, step_results, pidx, tries, pipeVars, moreVars, wait,
                   dpc, dIn, dOut>>

NextPlan ==
    \/ PlanSkipStep
    \/ PlanExecuteStep
    \/ PlanRetryStep
    \/ PlanAfterStep
    \/ PlanRollback
    \/ PlanFinish

\* execute_plan when no exception escapes into its loop
SpecPlan == InitPlan /\ [][NextPlan]_vars

----------------------------------------------------------------------------
(* execute_plan with the polling of _wait_for_completion (lines 246-270)    *)
(* spelled out: an attempt creates the Run, then polls its status every     *)
(* PollInterval seconds until a status of WaitEndStatuses comes back or     *)
(* elapsed reaches the step's timeout_seconds.                              *)

MaxTimeout == 2

StepTimeouts == 0..MaxTimeout

MaxPollSteps == 2

PollPlans == {p \in Plans : Len(p) <= MaxPollSteps}

InitPlanPoll ==
    /\ InitPipe
    /\ InitPolicyIdle
    /\ InitMoreIdle
    /\ plan \in PollPlans
    /\ approval \in BOOLEAN
    /\ step_results = [id \in StepIds |-> NoStepResult]
    /\ ppc = "loop"
    /\ pidx = 1
    /\ tries = [id \in StepIds |-> <<>>]
    /\ overall = ""
    /\ summary = ""
    /\ wait = NoWait

\* _execute_step returns result for the current step
RecordAttempt(result, next) ==
    /\ step_results' = [step_results EXCEPT ![CurrentStep.step_id] = result]
    /\ tries' = [tries EXCEPT ![CurrentStep.step_id] = Append(@, result.status)]
    /\ ppc' = next
    /\ wait' = NoWait

\* lines 157-191: create_run and the approval; the wait starts unless the
\* step is already settled (exception, or blocked on the approval)
BeginAttempt(waiting, next) ==
    \E resp \in CreateRunResponses, approved \in BOOLEAN, t \in StepTimeouts :
        /\ IF resp = "queued" \/ (resp = "pending_approval" /\ approval /\ approved)
           THEN /\ ppc' = waiting
                /\ wait' = Wait(0, t)
                /\ UNCHANGED <<step_results, tries>>
           ELSE RecordAttempt(_execute_step(approval, resp, approved, "succeeded"), next)
        /\ UNCHANGED <<plan, approval, pidx, overall, summary, pipeVars, moreVars, dpc, dIn, dOut>>

PlanBeginStep ==
    /\ ppc = "loop"
    /\ pidx <= Len(plan)
    /\ _dependencies_satisfied(CurrentStep, step_results)
    /\ BeginAttempt("waiting", "attempted")

PlanBeginRetry ==
    /\ ppc = "attempted"
    /\ ShouldRetry(CurrentStep, step_results[CurrentStep.step_id])
    /\ BeginAttempt("rewaiting", "settled")

AfterWait == IF ppc = "waiting" THEN "attempted" ELSE "settled"

\* lines 263-268: one round of the polling loop
PlanPoll ==
    /\ ppc \in {"waiting", "rewaiting"}
    /\ ~WaitExpired(wait)
    /\ \E answer \in PollAnswers :
           IF answer \in WaitEndStatuses \cup {"raise"}
           THEN RecordAttempt(_execute_step(approval, "queued", TRUE, answer), AfterWait)
           ELSE /\ wait' = Wait(wait.elapsed + PollInterval, wait.timeout)
                /\ UNCHANGED <<step_results, tries, ppc>>
    /\ UNCHANGED <<plan, approval, pidx, overall, summary, pipeVars, moreVars, dpc, dIn, dOut>>

\* line 270 and lines 226-234: asyncio.TimeoutError, the step is failed
PlanWaitExpired ==
    /\ ppc \in {"waiting", "rewaiting"}
    /\ WaitExpired(wait)
    /\ RecordAttempt(_execute_step(approval, "queued", TRUE, "timeout"), AfterWait)
    /\ UNCHANGED <<plan, approval, pidx, overall, summary, pipeVars, moreVars, dpc, dIn, dOut>>

NextPlanPoll ==
    \/ PlanSkipStep
    \/ PlanBeginStep
    \/ PlanBeginRetry
    \/ PlanPoll
    \/ PlanWaitExpired
    \/ PlanAfterStep
    \/ PlanRollback
    \/ PlanFinish

\* every call of the run client and of the approval handler returns, and the
\* event loop keeps running the coroutine
SpecPlanPoll == InitPlanPoll /\ [][NextPlanPoll]_vars /\ WF_vars(NextPlanPoll)

NextPlanAbort ==
    \/ NextPlan
    \/ PlanRaise
    \/ PlanExcept

\* execute_plan when an exception may escape at any point of its loop
SpecPlanAbort == InitPlan /\ [][NextPlanAbort]_vars

----------------------------------------------------------------------------
(* The execution block of run_tool_job (worker/jobs_v2.py, lines 246-306), *)
(* taken from its entry: the run's row is "running", the command, the      *)
(* environment and the executor are prepared.  executor.run either returns *)
(* an exit code or raises; every log_event call either inserts its row or  *)
(* raises (the audit table is written through its own connection).         *)

MaxExit == 2

ExitCodes == 0..MaxExit

Returned(c) == [raised |-> FALSE, exit_code |-> c]

Raised == [raised |-> TRUE, exit_code |-> NoExit]

ExecutorOutcomes == {Returned(c) : c \in ExitCodes} \cup {Raised}

SinkOutcomes == {"ok", "raise"}

\* what the successive log_event calls of one job do
SinkPlans == {<<a, b>> : a \in SinkOutcomes, b \in SinkOutcomes}

AuditRow(etype, status, message, exit_code) ==
    [event_type |-> etype, resource_id |-> call.run_id, status |-> status,
     message |-> message, tool_id |-> call.tool_id, exit_code |-> exit_code]

InitExec ==
    /\ InitPipe
    /\ InitPolicyIdle
    /\ InitPlanIdle
    /\ InitContext
    /\ epc = "execute"
    /\ call \in [run_id : RunIds, tool_id : ToolIds,
                 executor : ExecutorOutcomes, sink : SinkPlans]
    /\ run_row = [status |-> "running", finished_at |-> FALSE, exit_code |-> NoExit,
                  error_msg |-> ""]
    /\ events = <<>>
    /\ caught = ""
    /\ job_result = "none"

ExecFrame == UNCHANGED <<pipeVars, dpc, dIn, dOut, planVars, ctxVars>>

\* lines 247-254: executor.run(...)
ExecRun ==
    /\ epc = "execute"
    /\ IF call.executor.raised
       THEN epc' = "except" /\ caught' = "executor error"
       ELSE epc' = "record" /\ caught' = caught
    /\ UNCHANGED <<call, run_row, events, job_result>>
    /\ ExecFrame

StatusOf(exit_code) == IF exit_code = 0 THEN "succeeded" ELSE "failed"

\* lines 256-267: UPDATE tool_runs SET status, finished_at, exit_code; commit
ExecRecord ==
    /\ epc = "record"
    /\ run_row' = [run_row EXCEPT !.status = StatusOf(call.executor.exit_code),
                                  !.finished_at = TRUE,
                                  !.exit_code = call.executor.exit_code]
    /\ epc' = "audit_executed"
    /\ UNCHANGED <<call, events, caught, job_result>>
    /\ ExecFrame

\* lines 270-283: log_event("run.executed"), still inside the try block
ExecAuditExecuted ==
    /\ epc = "audit_executed"
    /\ call' = [call EXCEPT !.sink = Tail(@)]
    /\ IF Head(call.sink) = "ok"
       THEN /\ events' = Append(events,
                   AuditRow("run.executed",
                            IF call.executor.exit_code = 0 THEN "success" ELSE "fail",
                            "executed", call.executor.exit_code))
            /\ epc' = "done"
            /\ job_result' = "returned"
            /\ caught' = caught
       ELSE /\ epc' = "except"
            /\ caught' = "audit error"
            /\ UNCHANGED <<events, job_result>>
    /\ UNCHANGED run_row
    /\ ExecFrame

\* lines 285-294: except Exception: UPDATE tool_runs SET status='failed',
\* finished_at; commit
ExecExcept ==
    /\ epc = "except"
    /\ run_row' = [run_row EXCEPT !.status = "failed", !.finished_at = TRUE]
    /\ epc' = "audit_failed"
    /\ UNCHANGED <<call, events, caught, job_result>>
    /\ ExecFrame

\* lines 297-306: log_event("run.failed") inside the except clause; an
\* exception here leaves run_tool_job
ExecAuditFailed ==
    /\ epc = "audit_failed"
    /\ call' = [call EXCEPT !.sink = Tail(@)]
    /\ IF Head(call.sink) = "ok"
       THEN /\ events' = Append(events, AuditRow("run.failed", "fail", caught, NoExit))
            /\ job_result' = "returned"
       ELSE /\ events' = events
            /\ job_result' = "raised"
    /\ epc' = "done"
    /\ UNCHANGED <<run_row, caught>>
    /\ ExecFrame

NextExec ==
    \/ ExecRun
    \/ ExecRecord
    \/ ExecAuditExecuted
    \/ ExecExcept
    \/ ExecAuditFailed

SpecExec == InitExec /\ [][NextExec]_vars

----------------------------------------------------------------------------
(* Concurrent decisions: one submission of a write tool, and approve and   *)
(* deny calls served by one handler more than the pipeline has (the API    *)
(* endpoints are sync functions, which FastAPI runs on a thread pool, each *)
(* call with its own database connection).                                 *)

RaceHandlers == 1..(MaxHandlers + 1)

InitRace ==
    /\ runs = [r \in RunIds |-> NoRunRow]
    /\ approvals = [r \in RunIds |-> NoApproval]
    /\ queue = {}
    /\ audit = <<>>
    /\ nextRun = 1
    /\ hpc = [h \in RaceHandlers |-> "idle"]
    /\ hreq = [h \in RaceHandlers |-> NoReq]
    /\ lastResp = NoResp
    /\ wpc = "idle"
    /\ wjob = NoJob
    /\ wres = [run_id |-> GhostRun, outcome |-> "none"]
    /\ deliveries = 0
    /\ directs = 0
    /\ crashes = 0
    /\ InitPolicyIdle
    /\ InitPlanIdle
    /\ InitMoreIdle

NextRace ==
    \/ \E h \in RaceHandlers : SubmitBegin(h, "rm_tool", GoodArgs, "api")
    \/ \E h \in RaceHandlers : SubmitCreateRun(h)
    \/ \E h \in RaceHandlers : SubmitRespond(h)
    \/ \E h \in RaceHandlers, r \in RunIds, n \in Notes : ApproveBegin(h, r, n)
    \/ \E h \in RaceHandlers : ApproveWriteApproval(h)
    \/ \E h \in RaceHandlers : ApproveWriteRun(h)
    \/ \E h \in RaceHandlers : ApproveEnqueue(h)
    \/ \E h \in RaceHandlers, r \in RunIds, n \in Notes : DenyBegin(h, r, n)
    \/ \E h \in RaceHandlers : DenyWrite(h)

SpecRace == InitRace /\ [][NextRace]_vars

----------------------------------------------------------------------------
(* ConversationContext (agent/context.py): add_message and                  *)
(* update_working_context called in any order on one context                *)

HistoryLimit == 20

MaxAdds == 25

Roles == <<"user", "assistant">>

\* a conversation alternates user and assistant turns; the content is the
\* number of the message, so that every message is distinguishable
Message(n) == [role |-> Roles[((n - 1) % 2) + 1], content |-> n]

\* variant: the oldest messages are kept (history[:20])
Truncate_KeepOldest(h) ==
    IF Len(h) > HistoryLimit THEN SubSeq(h, 1, HistoryLimit) ELSE h

\* lines 54-55: history[-20:] when the list is longer than 20
Truncate(h) ==
    IF Len(h) > HistoryLimit THEN SubSeq(h, Len(h) - HistoryLimit + 1, Len(h)) ELSE h

CtxFrame == UNCHANGED <<pipeVars, dpc, dIn, dOut, planVars, execVars>>

add_message ==
    /\ Len(added) < MaxAdds
    /\ LET msg == Message(Len(added) + 1) IN
       /\ history' = Truncate(Append(history, msg))
       /\ added' = Append(added, msg)
    /\ UNCHANGED <<working_directory, project_type>>
    /\ CtxFrame

Directories == {"", "/workspace"}

ProjectTypes == {"", "python", "go"}

\* files is None; an empty cwd or project_type leaves the field as it is
update_working_context(cwd, ptype) ==
    /\ working_directory' = IF cwd # "" THEN cwd ELSE working_directory
    /\ project_type' = IF ptype # "" THEN ptype ELSE project_type
    /\ UNCHANGED <<history, added>>
    /\ CtxFrame

InitCtx ==
    /\ InitPipe
    /\ InitPolicyIdle
    /\ InitPlanIdle
    /\ InitExecIdle
    /\ InitContext

NextCtx ==
    \/ add_message
    \/ \E cwd \in Directories, ptype \in ProjectTypes : update_working_context(cwd, ptype)

SpecCtx == InitCtx /\ [][NextCtx]_vars

----------------------------------------------------------------------------
(* The executors: HostExecutor.run, DockerExecutor.run (worker/executors)  *)
(* and the subprocess call of SimpleExecutor._execute_command, applied to  *)
(* every outcome of subprocess.run.  stderr is the list of captured lines. *)

Exited(c) == [kind |-> "exit", code |-> c, text |-> ""]

TimeoutExpired == [kind |-> "timeout", code |-> NoExit, text |-> ""]

LaunchError(text) == [kind |-> "error", code |-> NoExit, text |-> text]

ProcOutcomes ==
    {Exited(c) : c \in ExitCodes} \cup {TimeoutExpired}
        \cup {LaunchError(t) : t \in {"No such file", "Permission denied"}}

RunResult(exit_code, stderr) == [exit_code |-> exit_code, stderr |-> stderr]

\* host.py lines 32-54; captured is what the process wrote to stderr_path
HostExecutor_run(proc, captured, timeout) ==
    CASE proc.kind = "exit" -> RunResult(proc.code, captured)
      [] proc.kind = "timeout" ->
            RunResult(124, Append(captured, <<"ERROR: Command timed out", timeout>>))
      [] proc.kind = "error" ->
            RunResult(1, Append(captured, <<"ERROR", proc.text>>))

\* docker.py lines 56-78: the same code, the container is not used yet
DockerExecutor_run(proc, captured, timeout) ==
    CASE proc.kind = "exit" -> RunResult(proc.code, captured)
      [] proc.kind = "timeout" ->
            RunResult(124, Append(captured, <<"ERROR: Command timed out", timeout>>))
      [] proc.kind = "error" ->
            RunResult(1, Append(captured, <<"ERROR", proc.text>>))

\* simple_executor.py lines 225-251: capture_output, both failures give -1
\* and the captured output is replaced by the message
SimpleExecutor_run(proc, captured, timeout) ==
    CASE proc.kind = "exit" -> RunResult(proc.code, captured)
      [] proc.kind = "timeout" -> RunResult(-1, <<<<"timed out", timeout>>>>)
      [] proc.kind = "error" -> RunResult(-1, <<<<"failed", proc.text>>>>)

ExecutorKinds == {"host", "docker", "simple"}

RunWith(kind, proc, captured, timeout) ==
    CASE kind = "host" -> HostExecutor_run(proc, captured, timeout)
      [] kind = "docker" -> DockerExecutor_run(proc, captured, timeout)
      [] kind = "simple" -> SimpleExecutor_run(proc, captured, timeout)

InitRun ==
    /\ InitPipe
    /\ InitPlanIdle
    /\ InitMoreIdle
    /\ dpc = "run_input"
    /\ dIn \in [kind : ExecutorKinds, proc : ProcOutcomes,
                captured : {<<>>, <<<<"warning", "">>>>}, timeout : {60, 120}]
    /\ dOut = NoDecision

ApplyRun ==
    /\ dpc = "run_input"
    /\ dOut' = RunWith(dIn.kind, dIn.proc, dIn.captured, dIn.timeout)
    /\ dpc' = "run_done"
    /\ UNCHANGED <<dIn, pipeVars, planVars, moreVars>>

NextRun == ApplyRun

SpecRun == InitRun /\ [][NextRun]_vars

----------------------------------------------------------------------------
(* The command and environment handed to the executor: run_tool_job        *)
(* (worker/jobs_v2.py lines 111, 225-233) and                              *)
(* SimpleExecutor._execute_command (simple_executor.py lines 199-221).     *)
(* A template part is a literal or a placeholder "{name}"; args is the     *)
(* dict in insertion order.                                                *)

Lit(s) == [ph |-> FALSE, s |-> s]

Ph(name) == [ph |-> TRUE, s |-> name]

Templates ==
    {<<Lit("cat")>>, <<Lit("echo"), Ph("msg")>>, <<Lit("echo"), Ph("msg"), Lit("--json")>>}

\* str(value) of a string and of a bool
StrVal(s) == [isbool |-> FALSE, b |-> FALSE, str |-> s]

BoolVal(b) == [isbool |-> TRUE, b |-> b, str |-> IF b THEN "True" ELSE "False"]

ArgItem(key, value) == [key |-> key, value |-> value]

MsgItems == {ArgItem("msg", StrVal(v)) : v \in {"hi", "x y"}}

VerboseItems == {ArgItem("verbose", BoolVal(b)) : b \in BOOLEAN}

ArgDicts ==
    {<<>>} \cup {<<m>> : m \in MsgItems} \cup {<<v>> : v \in VerboseItems}
        \cup {<<m, v>> : m \in MsgItems, v \in VerboseItems}
        \cup {<<v, m>> : m \in MsgItems, v \in VerboseItems}

Keys(args) == {args[i].key : i \in 1..Len(args)}

ValueOf(args, key) == args[CHOOSE i \in 1..Len(args) : args[i].key = key].value

Placeholders(template) == {template[i].s : i \in {j \in 1..Len(template) : template[j].ph}}

Tok(kind, s) == [kind |-> kind, s |-> s]

RECURSIVE Concat(_)
Concat(seqs) == IF seqs = <<>> THEN <<>> ELSE Head(seqs) \o Concat(Tail(seqs))

\* simple_executor.py lines 202-221
_execute_command_build(template, args) ==
    LET part(i) ==
            IF template[i].ph
            THEN IF template[i].s \in Keys(args)
                 THEN <<Tok("value", ValueOf(args, template[i].s).str)>>
                 ELSE <<>>
            ELSE <<Tok("lit", template[i].s)>>
        extra(i) ==
            IF args[i].key \in Placeholders(template) THEN <<>>
            ELSE IF args[i].value.isbool
                 THEN IF args[i].value.b THEN <<Tok("flag", args[i].key)>> ELSE <<>>
                 ELSE <<Tok("value", args[i].value.str)>>
    IN  Concat([i \in 1..Len(template) |-> part(i)])
            \o Concat([i \in 1..Len(args) |-> extra(i)])

\* jobs_v2.py line 111: command = json.loads(tool["command_json"]), the
\* template itself
WorkerCommand(template, args) ==
    [i \in 1..Len(template) |->
        IF template[i].ph THEN Tok("placeholder", template[i].s)
        ELSE Tok("lit", template[i].s)]

EnvVar(name, key, value) == [name |-> name, key |-> key, value |-> value]

\* jobs_v2.py lines 225-233 (WORKSPACE and DATA_DIR left out)
WorkerEnv(run_id, tool_id, args) ==
    {EnvVar("RUN_ID", "", run_id), EnvVar("TOOL_ID", "", tool_id)}
        \cup {EnvVar("ARG", args[i].key, args[i].value.str) : i \in 1..Len(args)}

Invocation(command, env) == [command |-> command, env |-> env]

\* what each path hands to its executor; SimpleExecutor passes no env
BuildInvocation(path, template, args) ==
    IF path = "worker"
    THEN Invocation(WorkerCommand(template, args), WorkerEnv("run-1", "tool-1", args))
    ELSE Invocation(_execute_command_build(template, args), {})

InitCmd ==
    /\ InitPipe
    /\ InitPlanIdle
    /\ InitMoreIdle
    /\ dpc = "cmd_input"
    /\ dIn \in [path : {"worker", "simple"}, template : Templates, args : ArgDicts]
    /\ dOut = NoDecision

BuildCmd ==
    /\ dpc = "cmd_input"
    /\ dOut' = BuildInvocation(dIn.path, dIn.template, dIn.args)
    /\ dpc' = "cmd_built"
    /\ UNCHANGED <<dIn, pipeVars, planVars, moreVars>>

NextCmd == BuildCmd

SpecCmd == InitCmd /\ [][NextCmd]_vars

----------------------------------------------------------------------------
(* Plan construction: AgentPlanner._validate_and_build_plan                  *)
(* (agent/planner.py lines 252-315) applied to every plan_data of a        *)
(* bounded set. A field "" stands for a key the LLM answer leaves out.     *)

MaxPlanData == 2

StepData(step_id, tool_id, on_fail) ==
    [step_id |-> step_id, tool_id |-> tool_id, on_fail |-> on_fail]

StepDataChoices ==
    {StepData(id, t, f) :
        id \in {"", "s1", "s2"},
        t \in {"", "echo_test", "off_tool", GhostTool},
        f \in {"", "stop", "continue", "rollback", "abort"}}

PlanDatas == UNION {[1..n -> StepDataChoices] : n \in 0..MaxPlanData}

DefaultStepId == <<"step_1", "step_2", "step_3">>

\* lines 317-339: SELECT COUNT(*) FROM tools WHERE id = ? AND enabled = 1
_tool_exists(tool_id) == ToolFound(tool_id) /\ get_tool(tool_id).is_enabled = 1

\* lines 283-288: why step i is refused, "" when it is not
StepError(step_data) ==
    IF step_data.tool_id = "" THEN "missing tool_id"
    ELSE IF ~_tool_exists(step_data.tool_id) THEN "tool not found or not enabled"
    ELSE ""

\* lines 291-302: PlanStep(...) with the defaults of step_data.get
BuildStep(step_data, i) ==
    StepData(IF step_data.step_id = "" THEN DefaultStepId[i] ELSE step_data.step_id,
             step_data.tool_id,
             IF step_data.on_fail = "" THEN "stop" ELSE step_data.on_fail)

Rejected(error) == [ok |-> FALSE, error |-> error, steps |-> <<>>]

Built(steps) == [ok |-> TRUE, error |-> "", steps |-> steps]

_validate_and_build_plan(plan_data) ==
    LET bad == {i \in 1..Len(plan_data) : StepError(plan_data[i]) # ""} IN
    IF plan_data = <<>> THEN Rejected("no steps")
    ELSE IF bad # {}
    THEN Rejected(StepError(plan_data[CHOOSE i \in bad : \A j \in bad : i <= j]))
    ELSE Built([i \in 1..Len(plan_data) |-> BuildStep(plan_data[i], i)])

InitBuild ==
    /\ InitPipe
    /\ InitPlanIdle
    /\ InitMoreIdle
    /\ dpc = "plan_data"
    /\ dIn \in PlanDatas
    /\ dOut = NoDecision

BuildPlan ==
    /\ dpc = "plan_data"
    /\ dOut' = _validate_and_build_plan(dIn)
    /\ dpc' = "plan_built"
    /\ UNCHANGED <<dIn, pipeVars, planVars, moreVars>>

NextBuild == BuildPlan

SpecBuild == InitBuild /\ [][NextBuild]_vars

----------------------------------------------------------------------------
(* The outcome of create_tool_run_endpoint (api/routes/tool_runs.py lines   *)
(* 178-239) next to the Decision of decide_execute, for every input of a   *)
(* bounded set. The endpoint receives the token, never its scopes.         *)

\* lines 180-204: 404 and the errors of _validate_args_and_paths reject;
\* otherwise the risk level alone chooses between parking and queueing
SubmissionOutcome(tool, args) ==
    IF tool.is_enabled = 0 THEN "rejected"
    ELSE IF _validate_args_and_paths(tool, args) # 200 THEN "rejected"
    ELSE IF _requires_approval(tool.risk_level) THEN "pending_approval"
    ELSE "queued"

Agreement(decision, outcome) == [decision |-> decision, outcome |-> outcome]

InitAgree ==
    /\ InitPipe
    /\ InitPlanIdle
    /\ InitMoreIdle
    /\ dpc = "submit_input"
    /\ dIn \in [scopes : SUBSET Scopes, tool : PolicyTools, args : ArgSet]
    /\ dOut = NoDecision

SubmitAndDecide ==
    /\ dpc = "submit_input"
    /\ dOut' = Agreement(decide_execute(dIn.scopes, dIn.tool, dIn.args),
                         SubmissionOutcome(dIn.tool, dIn.args))
    /\ dpc' = "submit_decided"
    /\ UNCHANGED <<dIn, pipeVars, planVars, moreVars>>

NextAgree == SubmitAndDecide

SpecAgree == InitAgree /\ [][NextAgree]_vars

----------------------------------------------------------------------------
(* SimpleExecutor.execute_tool (simple_executor.py lines 30-176), one call  *)
(* for every tool, exit code and database fault of a bounded set. dOut      *)
(* holds the rows the call has committed and, at the end, what it returns.  *)

\* the sqlite statement that raises, if any
SimpleFaults == {"none", "record", "audit"}

SimpleExitCodes == {0, 1, NoExit}

SimpleState(run, exit_code, pending, executed, audited, ret) ==
    [run |-> run, exit_code |-> exit_code, pending |-> pending,
     executed |-> executed, audited |-> audited, ret |-> ret]

NoReturn == [success |-> FALSE, status |-> "", error |-> ""]

\* lines 170-173 and 62-65: the answer without a status key
ErrorReturn == [success |-> FALSE, status |-> "none", error |-> "error"]

InitSimple ==
    /\ InitPipe
    /\ InitPlanIdle
    /\ InitMoreIdle
    /\ dpc = "simple_input"
    /\ dIn \in [risk_level : RiskLevels, enabled : {0, 1},
                exit_code : SimpleExitCodes, fault : SimpleFaults]
    /\ dOut = NoDecision

SimpleFrame == UNCHANGED <<dIn, pipeVars, planVars, moreVars>>

\* lines 51-101: tool lookup, INSERT of the run as queued, and for exec_high
\* and write the approval request, the commit and the return
SimpleCreate ==
    /\ dpc = "simple_input"
    /\ IF dIn.enabled # 1
       THEN /\ dOut' = SimpleState("absent", NoExit, 0, FALSE, 0, ErrorReturn)
            /\ dpc' = "simple_returned"
       ELSE IF dIn.risk_level \in {"exec_high", "write"}
       THEN /\ dOut' = SimpleState("queued", NoExit, 1, FALSE, 0,
                           [success |-> FALSE, status |-> "pending_approval", error |-> ""])
            /\ dpc' = "simple_returned"
       ELSE /\ dOut' = SimpleState("queued", NoExit, 0, FALSE, 0, NoReturn)
            /\ dpc' = "simple_queued"
    /\ SimpleFrame

\* lines 103-108
SimpleMarkRunning ==
    /\ dpc = "simple_queued"
    /\ dOut' = [dOut EXCEPT !.run = "running"]
    /\ dpc' = "simple_running"
    /\ SimpleFrame

\* lines 158-173: except Exception
SimpleExcept(state) == [state EXCEPT !.run = "failed", !.ret = ErrorReturn]

\* lines 110-132: _execute_command, then the UPDATE of status and exit_code
SimpleRecord ==
    /\ dpc = "simple_running"
    /\ IF dIn.fault = "record"
       THEN /\ dOut' = SimpleExcept([dOut EXCEPT !.executed = TRUE])
            /\ dpc' = "simple_returned"
       ELSE /\ dOut' = [dOut EXCEPT !.executed = TRUE,
                                    !.run = IF dIn.exit_code = 0 THEN "succeeded" ELSE "failed",
                                    !.exit_code = dIn.exit_code]
            /\ dpc' = "simple_recorded"
    /\ SimpleFrame

\* lines 134-156: INSERT of the audit event, commit, return
SimpleAudit ==
    /\ dpc = "simple_recorded"
    /\ IF dIn.fault = "audit"
       THEN dOut' = SimpleExcept(dOut)
       ELSE dOut' = [dOut EXCEPT !.audited = 1,
                        !.ret = [success |-> dIn.exit_code = 0,
                                 status |-> IF dIn.exit_code = 0 THEN "succeeded" ELSE "failed",
                                 error |-> ""]]
    /\ dpc' = "simple_returned"
    /\ SimpleFrame

NextSimple ==
    \/ SimpleCreate
    \/ SimpleMarkRunning
    \/ SimpleRecord
    \/ SimpleAudit

SpecSimple == InitSimple /\ [][NextSimple]_vars

----------------------------------------------------------------------------
(* Vocabulary of the properties *)

HighRisk(t) == ToolFound(t) /\ get_tool(t).risk_level \in {"exec_high", "write"}

ApprovedDecisionRecorded(r) == ApprovalExists(r) /\ approvals[r].status = "approved"

\* a step of run_tool_job
WorkerStep == wpc # "idle" /\ wpc' # wpc

\* the step that ends a run_tool_job invocation
JobEnds == wpc # "idle" /\ wpc' = "idle"

Audited(log, r) == \E i \in 1..Len(log) : log[i].resource_id = r

\* the path-like argument violates the tool's non-empty allow-list
PathViolates(t, a) ==
    /\ ToolFound(t)
    /\ _normalize_allowed_prefixes(get_tool(t).allowed_paths_json) # <<>>
    /\ \E i \in 1..Len(_extract_path_values(a)) :
           ~_path_is_allowed(_extract_path_values(a)[i],
                             _normalize_allowed_prefixes(get_tool(t).allowed_paths_json))

\* the submissions to the endpoint that do so
ViolatingInputs ==
    {i \in SubmitInputs : i.origin = "api" /\ PathViolates(i.tool_id, i.args)}

Tables == <<runs, approvals, queue, audit, nextRun>>

----------------------------------------------------------------------------
C2_ApproveThenConflict ==
    [][/\ \A h \in Handlers :
            (hpc[h] = "a_approval" /\ hpc'[h] = "a_run")
                => approvals'[hreq[h].run_id].status = "approved"
       /\ \A h \in Handlers :
            (hpc[h] = "a_run" /\ hpc'[h] = "a_enqueue"
                /\ runs[hreq[h].run_id].status = "pending_approval")
                => runs'[hreq[h].run_id].status = "queued"
       /\ \A h \in Handlers, r \in RunIds, n \in Notes :
            (approvals[r].status \in {"approved", "denied"}
                /\ (ApproveBegin(h, r, n) \/ DenyBegin(h, r, n)))
                => /\ lastResp'.code = 409
                   /\ hpc'[h] = "idle"
                   /\ UNCHANGED Tables]_vars

C2_Witness ==
    /\ lastResp.op \in {"approve", "deny"}
    /\ lastResp.code = 409
    /\ approvals[lastResp.run_id].status = "approved"
    /\ runs[lastResp.run_id].status = "queued"

(* C3: whenever no approve call is in progress (so also after a crash       *)
(* inside one), no approved request references a Run that is still          *)
(* pending_approval.                                                        *)
C3_ApproveAtomic ==
    (\A h \in Handlers : hpc[h] = "idle")
        => \A r \in RunIds :
               ApprovedDecisionRecorded(r) => runs[r].status # "pending_approval"

(* C4: a job delivered again for a Run that is already succeeded or failed   *)
(* is a no-op: no step of the Job Runner changes the Run's status or exit   *)
(* code (only jobs the API enqueued are looked at).                         *)
C4_RedeliveryNoOp ==
    [][\A r \in RunIds :
          (WorkerStep /\ directs = 0 /\ wjob.run_id = r
              /\ runs[r].status \in {"succeeded", "failed"})
              => (runs'[r].status = runs[r].status
                  /\ runs'[r].exit_code = runs[r].exit_code)]_vars

(* C5: a Run that is succeeded, failed or denied keeps that status for ever  *)
(* (only jobs the API enqueued are looked at).                              *)
C5_TerminalMonotonic ==
    [][\A r \in RunIds :
          (directs = 0 /\ runs[r].status \in TerminalStatuses)
              => runs'[r].status = runs[r].status]_vars

(* C6: every Job Runner invocation for an approved, existing Run returns    *)
(* normally, leaves the Run succeeded or failed and has emitted an audit    *)
(* event for it (only jobs the API enqueued are looked at).                 *)
C6_JobAlwaysTerminal ==
    [][(JobEnds /\ directs = 0 /\ RunExists(wjob.run_id)
            /\ is_run_approved(wjob.run_id))
          => /\ wres'.outcome = "returned"
             /\ runs'[wjob.run_id].status \in {"succeeded", "failed"}
             /\ Audited(audit', wjob.run_id)]_vars

(* C7: a Run of an enabled read tool without schema, submitted with empty   *)
(* arguments, is succeeded with exit code 0 once the worker has processed   *)
(* its job (no job other than the one the submission enqueued is involved). *)
C7_ReadRunSucceeds ==
    \A r \in RunIds :
        (/\ RunExists(r)
         /\ runs[r].tool = "echo_test"
         /\ runs[r].args = EmptyArgs
         /\ directs = 0
         /\ wpc = "idle"
         /\ wres.run_id = r
         /\ wres.outcome # "none")
            => (runs[r].status = "succeeded" /\ runs[r].exit_code = 0)

(* C8: the Run of a write tool is created pending_approval; denying its     *)
(* approval with a note makes the Run denied with the note as error         *)
(* message; no API handler enqueues a Run that has an approval request,    *)
(* denied or not, and the Job Runner never takes a Run whose approval is    *)
(* denied past its approval re-check.                                       *)
C8_DenyIsFinal ==
    [][/\ \A h \in Handlers :
            (hpc[h] = "s_run" /\ hpc'[h] # "s_run" /\ crashes' = crashes
                /\ get_tool(hreq[h].tool_id).risk_level = "write")
                => /\ runs'[hreq[h].run_id].status = "pending_approval"
                   /\ queue' = queue
       /\ \A h \in Handlers :
            (hpc[h] = "d_write" /\ hpc'[h] # "d_write" /\ crashes' = crashes
                /\ RunExists(hreq[h].run_id)
                /\ hreq[h].note # "")
                => /\ runs'[hreq[h].run_id].status = "denied"
                   /\ runs'[hreq[h].run_id].error_msg = hreq[h].note
                   /\ approvals'[hreq[h].run_id].status = "denied"
       /\ \A j \in queue' \ queue :
            ApprovalExists(j.run_id) => directs' = directs + 1
       /\ (wpc = "check" /\ ApprovalExists(wjob.run_id)
                /\ approvals[wjob.run_id].status = "denied")
                => wpc' \notin {"load", "prepare"}]_vars

C8_Witness ==
    \E r \in RunIds :
        /\ runs[r].tool = "rm_tool"
        /\ runs[r].status = "denied"
        /\ runs[r].error_msg = "unsafe"
        /\ approvals[r].status = "denied"
        /\ wres.run_id = r
        /\ wres.outcome = "returned"

(* C9: no Run of a submission whose path argument violates the tool's       *)
(* non-empty allow-list ever reaches running, whichever way it was          *)
(* submitted (only jobs the API enqueued are looked at).                    *)
C9_ViolatingRunNeverRunning ==
    \A r \in RunIds :
        (RunExists(r) /\ directs = 0 /\ PathViolates(runs[r].tool, runs[r].args))
            => runs[r].status # "running"

(* C9, the endpoint alone: such a submission to POST /tool-runs is always   *)
(* rejected and creates no Run, no approval request and no queue entry; the *)
(* error is the path-guard error (403) when the tool is enabled and the     *)
(* arguments pass its schema.                                               *)
C9_EndpointRejects ==
    [][\A h \in Handlers, i \in ViolatingInputs :
          (hpc[h] = "idle" /\ SubmitBegin(h, i.tool_id, i.args, "api"))
              => /\ lastResp'.op = "submit"
                 /\ lastResp'.status = "rejected"
                 /\ hpc'[h] = "idle"
                 /\ UNCHANGED Tables
                 /\ (get_tool(i.tool_id).is_enabled = 1
                        /\ js_validate(i.args, get_tool(i.tool_id).args_schema_json) = "ok")
                     => lastResp'.code = 403]_vars

(* C10 as stated: for an exec_high or write tool decide() always returns    *)
(* requires_approval = true.                                                *)
C10_HighRiskAlwaysApproval ==
    (dpc = "decided" /\ dIn.tool.risk_level \in {"exec_high", "write"})
        => dOut.requires_approval

(* C10, amended: for an enabled exec_high or write tool and a caller        *)
(* holding the execute scope, decide() returns allowed = true and           *)
(* requires_approval = true for every argument map, schema-valid or not.    *)
C10_HighRiskNeedsApproval ==
    (/\ dpc = "decided"
     /\ dIn.tool.risk_level \in {"exec_high", "write"}
     /\ "tool:execute" \in dIn.scopes
     /\ dIn.tool.is_enabled = 1)
        => (dOut.allowed /\ dOut.requires_approval)

C10_Witness ==
    /\ dpc = "decided"
    /\ dIn.tool.risk_level = "write"
    /\ dIn.tool.args_schema_json = "strict"
    /\ js_validate(dIn.args, "strict") = "invalid"
    /\ "tool:execute" \in dIn.scopes
    /\ dIn.tool.is_enabled = 1
    /\ dOut.requires_approval

C12_FailsClosed ==
    (dpc = "decided"
        /\ ("tool:execute" \notin dIn.scopes \/ dIn.tool.is_enabled # 1))
        => ~dOut.allowed

C12_Witness ==
    /\ dpc = "decided"
    /\ dIn.tool.risk_level = "write"
    /\ dIn.tool.is_enabled = 1
    /\ "tool:execute" \notin dIn.scopes
    /\ js_validate(dIn.args, dIn.tool.args_schema_json) = "ok"
    /\ ~dOut.allowed

\* a relative raw path with a ".." segment
HasTraversal(raw) ==
    ~raw.abs /\ \E i \in 1..Len(raw.segs) : raw.segs[i] = ".."

(* C13: both allow-list checks reject every relative candidate with a ".."  *)
(* segment when the allow-list is non-empty, and accept every candidate     *)
(* when it is empty.                                                        *)
C13_PathAllowed ==
    dpc = "path_checked"
        => LET prefixes == _normalize_allowed_prefixes(dIn.allowed) IN
           /\ (prefixes # <<>> /\ HasTraversal(dIn.raw))
                  => (~dOut.api /\ ~dOut.worker)
           /\ prefixes = <<>> => (dOut.api /\ dOut.worker)

(* C13, the submission-time check alone: _path_is_allowed rejects every     *)
(* relative candidate with a ".." segment when the allow-list is non-empty  *)
(* and accepts every candidate when it is empty.                            *)
C13_SubmissionPathAllowed ==
    dpc = "path_checked"
        => LET prefixes == _normalize_allowed_prefixes(dIn.allowed) IN
           /\ (prefixes # <<>> /\ HasTraversal(dIn.raw)) => ~dOut.api
           /\ prefixes = <<>> => dOut.api

----------------------------------------------------------------------------
(* Vocabulary of the plan properties *)

StatusAt(i) == step_results[plan[i].step_id].status

\* step i ended failed, after its retry if it had one
EndedFailed(i) == StatusAt(i) = "failed"

\* a step between i and j ended failed with a policy that ends the loop
HaltedBetween(i, j) ==
    \E k \in (i + 1)..(j - 1) : EndedFailed(k) /\ plan[k].on_fail \in {"stop", "rollback"}

\* the loop has left step i behind
PastStep(i) == pidx > i \/ (pidx = i /\ ppc \in {"settled", "rollback", "finish", "done"})

(* C14 as stated: after a failed step with policy stop no later step has a  *)
(* result; after a failed step with policy continue every later step that  *)
(* depends on it has the result skipped.                                    *)
C14_StopHaltsContinueSkips ==
    ppc = "done"
        => \A i \in 1..Len(plan) :
               EndedFailed(i)
                   => /\ plan[i].on_fail = "stop"
                          => \A j \in (i + 1)..Len(plan) : StatusAt(j) = "none"
                      /\ plan[i].on_fail = "continue"
                          => \A j \in (i + 1)..Len(plan) :
                                 plan[i].step_id \in plan[j].depends_on
                                     => StatusAt(j) = "skipped"

(* C14, amended: after a failed step with policy stop no later step has a   *)
(* result; after a failed step with policy continue the next step gets a    *)
(* result, and a later step that depends on the failed one is never         *)
(* executed: its result is skipped, or it has no result when another failed *)
(* step with policy stop or rollback ended the loop before it.              *)
C14_StopHaltsContinueNeverRuns ==
    ppc = "done"
        => \A i \in 1..Len(plan) :
               EndedFailed(i)
                   => /\ plan[i].on_fail = "stop"
                          => \A j \in (i + 1)..Len(plan) : StatusAt(j) = "none"
                      /\ plan[i].on_fail = "continue"
                          => /\ i < Len(plan) => StatusAt(i + 1) # "none"
                             /\ \A j \in (i + 1)..Len(plan) :
                                    plan[i].step_id \in plan[j].depends_on
                                        => /\ tries[plan[j].step_id] = <<>>
                                           /\ StatusAt(j) =
                                                 IF HaltedBetween(i, j)
                                                 THEN "none" ELSE "skipped"

C14_Witness ==
    /\ ppc = "done"
    /\ Len(plan) = 3
    /\ EndedFailed(1) /\ plan[1].on_fail = "continue"
    /\ plan[1].step_id \in plan[3].depends_on
    /\ StatusAt(2) = "completed"
    /\ StatusAt(3) = "skipped"

(* C15 as stated: the aggregate status is success if every recorded step is *)
(* completed, failed if none is completed and one is failed, partial if     *)
(* completed and failed are both present, blocked if none failed and one is *)
(* blocked, for every set of recorded results.                              *)
C15_AggregateStatus ==
    ppc = "done"
        => LET st == RecordedStatuses(step_results) IN
           /\ st \subseteq {"completed"} => overall = "success"
           /\ ("completed" \notin st /\ "failed" \in st) => overall = "failed"
           /\ {"completed", "failed"} \subseteq st => overall = "partial"
           /\ ("failed" \notin st /\ "blocked" \in st) => overall = "blocked"

(* C15, amended: the same for every non-empty set of recorded results; with *)
(* no recorded result the aggregate status is failed.                       *)
C15_AggregateStatusNonEmpty ==
    ppc = "done"
        => LET st == RecordedStatuses(step_results) IN
           /\ st = {"completed"} => overall = "success"
           /\ st = {} => overall = "failed"
           /\ ("completed" \notin st /\ "failed" \in st) => overall = "failed"
           /\ {"completed", "failed"} \subseteq st => overall = "partial"
           /\ ("failed" \notin st /\ "blocked" \in st) => overall = "blocked"

C15_Witness ==
    /\ ppc = "done"
    /\ Len(plan) = 3
    /\ StatusAt(1) = "completed" /\ StatusAt(2) = "failed" /\ StatusAt(3) = "completed"
    /\ overall = "partial"

(* C16: the aggregate status is partial only when the results hold at least *)
(* one completed and at least one failed step.                              *)
C16_PartialOnlyIfMixed ==
    (ppc = "done" /\ overall = "partial")
        => {"completed", "failed"} \subseteq RecordedStatuses(step_results)

(* C17: a step is executed at most twice; it is executed a second time      *)
(* exactly when its first attempt ended failed and retry_on_fail is set.    *)
C17_AtMostOneRetry ==
    \A i \in 1..Len(plan) :
        LET t == tries[plan[i].step_id] IN
        /\ Len(t) <= 2
        /\ Len(t) = 2 => (t[1] = "failed" /\ plan[i].retry_on_fail)
        /\ (PastStep(i) /\ Len(t) >= 1 /\ t[1] = "failed" /\ plan[i].retry_on_fail)
               => Len(t) = 2

C17_Witness ==
    /\ ppc = "done"
    /\ \E i \in 1..Len(plan) : tries[plan[i].step_id] = <<"failed", "completed">>
    /\ \E i \in 1..Len(plan) :
           tries[plan[i].step_id] = <<"failed">> /\ ~plan[i].retry_on_fail
    /\ \E i \in 1..Len(plan) : tries[plan[i].step_id] = <<"blocked">>

(* C18: _execute_step is called for a step only when every id in its        *)
(* depends_on has a recorded result with status completed; otherwise the    *)
(* step is recorded as skipped with an error, nothing is executed for it    *)
(* and the loop moves to the next step.                                     *)
C18_DependenciesGate ==
    [][/\ tries' # tries /\ ppc = "loop"
           => \A d \in plan[pidx].depends_on : step_results[d].status = "completed"
       /\ (ppc = "loop" /\ pidx <= Len(plan)
              /\ \E d \in plan[pidx].depends_on : step_results[d].status # "completed")
           => /\ step_results'[plan[pidx].step_id].status = "skipped"
              /\ step_results'[plan[pidx].step_id].error # ""
              /\ step_results'[plan[pidx].step_id].run_id = ""
              /\ tries' = tries
              /\ ppc' = "loop"
              /\ pidx' = pidx + 1]_vars

C18_Witness ==
    /\ ppc = "done"
    /\ Len(plan) = 3
    /\ StatusAt(1) = "failed"
    /\ StatusAt(2) = "skipped" /\ tries[plan[2].step_id] = <<>>
    /\ StatusAt(3) = "completed"

(* C19: every step result with status blocked carries the approval id of    *)
(* the approval request that gates its Run.                                 *)
C19_BlockedCarriesApprovalId ==
    \A id \in StepIds :
        step_results[id].status = "blocked" => step_results[id].approval_id # ""

(* C19, the rest: a blocked step never ends the loop, the next step is      *)
(* processed.                                                               *)
C19_BlockedNeverHalts ==
    [][(ppc \in {"attempted", "settled"} /\ ppc' # ppc
           /\ step_results[plan[pidx].step_id].status = "blocked")
         => (ppc' = "loop" /\ pidx' = pidx + 1)]_vars

(* C20: every step that moves a Run into a terminal status (succeeded,      *)
(* failed, denied) writes an audit event for that Run.                      *)
C20_TerminalAudited ==
    [][\A r \in RunIds :
          (runs'[r].status \in TerminalStatuses /\ runs'[r].status # runs[r].status)
              => /\ Len(audit') = Len(audit) + 1
                 /\ audit'[Len(audit')].resource_id = r]_vars

----------------------------------------------------------------------------
(* The execution block: claims C21, C29, C30 *)

ExecutedEvents == {i \in 1..Len(events) : events[i].event_type = "run.executed"}

C29_RecordedWhenAuditWritten ==
    (epc = "done" /\ ~call.executor.raised /\ ExecutedEvents # {})
        => /\ run_row.status = StatusOf(call.executor.exit_code)
           /\ run_row.exit_code = call.executor.exit_code
           /\ run_row.finished_at
           /\ Cardinality(ExecutedEvents) = 1
           /\ \A i \in ExecutedEvents :
                  /\ events[i].tool_id = call.tool_id
                  /\ events[i].exit_code = call.executor.exit_code
                  /\ (events[i].status = "success") = (call.executor.exit_code = 0)

FailedEvents == {i \in 1..Len(events) : events[i].event_type = "run.failed"}

C30_ExceptionFailsRun ==
    (epc = "done" /\ call.executor.raised)
        => /\ run_row.status = "failed"
           /\ run_row.finished_at
           /\ (job_result = "returned") = (FailedEvents # {})
           /\ \A i \in FailedEvents : events[i].message = "executor error"

----------------------------------------------------------------------------
(* Concurrent decisions: claim C22 *)

Decided(r) == approvals[r].status \in {"approved", "denied"}

\* C22: whatever the interleaving of approve and deny calls on one pending
\* request, its decision is written once (a decided request is never
\* written again), a call that reaches its write after another call has
\* decided is answered 409 instead of writing, and at most one job of the
\* linked Run is in the work queue.
C22_OneDecisionWins ==
    [][/\ \A r \in RunIds : Decided(r) => approvals'[r] = approvals[r]
       /\ \A h \in RaceHandlers :
            (hpc[h] \in {"a_approval", "d_write"} /\ hpc'[h] # hpc[h]
                /\ Decided(hreq[h].run_id))
                => (lastResp'.code = 409 /\ hpc'[h] = "idle")
       /\ \A r \in RunIds : Cardinality({j \in queue' : j.run_id = r}) <= 1]_vars

----------------------------------------------------------------------------
(* The pipeline: claims C23, C24, C26, C27, C28 *)

\* C23, first half: in every reachable state a Run whose status is
\* pending_approval has an approval request referencing it, and that
\* request is pending (the model keeps at most one request per Run, as
\* the code creates at most one).
C23_PendingHasOneOpenRequest ==
    \A r \in RunIds :
        runs[r].status = "pending_approval"
            => (ApprovalExists(r) /\ approvals[r].status = "pending")

\* C23, second half: a Run's status becomes pending_approval only in the
\* step that creates its row for an existing approval request; no step of
\* the Job Runner and no approval decision sets it.
C23_PendingOnlyByCreation ==
    [][\A r \in RunIds :
          (runs[r].status # "pending_approval" /\ runs'[r].status = "pending_approval")
              => /\ runs[r].status = "absent"
                 /\ ApprovalExists(r)
                 /\ wpc' = wpc]_vars

\* a submission handler returns its answer in this step
SubmitAnswered(h) ==
    /\ hpc[h] \in {"s_run", "s_enqueue", "s_respond"}
    /\ hpc'[h] = "idle"
    /\ crashes' = crashes

\* a submission handler ends in this step without an answer
SubmitFailed(h) ==
    /\ hpc[h] \in {"s_run", "s_enqueue", "s_respond"}
    /\ hpc'[h] = "idle"
    /\ crashes' # crashes

\* C24, the failure case: a submission that ends without an answer after
\* its approval request was written leaves no approval request without a
\* Run.
C24_FailedSubmissionLeavesNoRequest ==
    [][\A h \in Handlers :
          SubmitFailed(h) =>
              (approvals'[hreq[h].run_id].status # "absent"
                  => runs'[hreq[h].run_id].status # "absent")]_vars

\* C24, the answer: a submission that succeeds answers with the Run's id
\* and the status queued or pending_approval.
C24_AnswerQueuedOrPending ==
    [][\A h \in Handlers :
          SubmitAnswered(h) =>
              /\ lastResp'.code = 200
              /\ lastResp'.run_id = hreq[h].run_id
              /\ lastResp'.status \in {"queued", "pending_approval"}]_vars

\* C24, the part that holds: the step that creates the Run's row gives it
\* the status pending_approval and the id of a pending approval request
\* exactly for the tools of risk exec_high or write, and queued without a
\* request otherwise; nothing is enqueued in that step.
C24_RunCreatedByRisk ==
    [][\A h \in Handlers :
          (hpc[h] = "s_run" /\ hpc'[h] # "s_run" /\ crashes' = crashes) =>
              LET r == hreq[h].run_id
                  high == _requires_approval(get_tool(hreq[h].tool_id).risk_level)
              IN  /\ runs'[r].status = IF high THEN "pending_approval" ELSE "queued"
                  /\ high <=> ApprovalExists(r)
                  /\ high => approvals[r].status = "pending"
                  /\ queue' = queue]_vars

----------------------------------------------------------------------------
(* ConversationContext: claim C25 *)

\* the last n elements of s, in order (all of s when it is shorter)
LastOf(s, n) ==
    LET k == IF Len(s) < n THEN Len(s) ELSE n
    IN  [i \in 1..k |-> s[Len(s) - k + i]]

\* C25: after any sequence of add_message calls the history holds at most
\* 20 messages, and they are exactly the most recently added messages in
\* the order they were added.
C25_HistoryIsLastTwenty ==
    /\ Len(history) <= HistoryLimit
    /\ history = LastOf(added, HistoryLimit)

C25_Witness ==
    /\ Len(added) > HistoryLimit + 1
    /\ Len(history) = HistoryLimit
    /\ history[1].content = Len(added) - HistoryLimit + 1
    /\ project_type = "python"

\* the Job Runner finishes a job it found not approved
BlockedStep == wpc = "blocked" /\ wpc' # "blocked"

BlockedEvents(log) == {i \in 1..Len(log) : log[i].event_type = "run.blocked"}

\* C26: a job whose Run is found not approved is a no-op with a log: the
\* job ends without going on towards the Executor, the Run's row is left
\* exactly as it was, and exactly one run.blocked event for the Run is
\* added to the audit log.
C26_BlockedIsNoOpWithLog ==
    [][BlockedStep =>
          /\ wpc' = "idle"
          /\ runs' = runs
          /\ Len(audit') = Len(audit) + 1
          /\ audit'[Len(audit')] = Event("run.blocked", wjob.run_id, "fail")]_vars

\* C26, the part that holds: the job ends there, the Run is never set to
\* failed (its status is afterwards denied or pending_approval, or it has
\* no row), and exactly one run.blocked event is added.
C26_BlockedNeverFails ==
    [][BlockedStep =>
          /\ wpc' = "idle"
          /\ \A r \in RunIds :
                 /\ r # wjob.run_id => runs'[r] = runs[r]
                 /\ r = wjob.run_id =>
                        runs'[r].status \in {"absent", "denied", "pending_approval"}
          /\ Cardinality(BlockedEvents(audit')) = Cardinality(BlockedEvents(audit)) + 1
          /\ audit'[Len(audit')] = Event("run.blocked", wjob.run_id, "fail")]_vars

\* the Job Runner finds no Tool descriptor for the job it has passed
ToolMissingStep == wpc = "load" /\ ~ToolFound(wjob.tool_id) /\ wpc' # "load"

\* C27: when the Tool descriptor of a dequeued, approved Run is missing, the
\* Run goes to failed in the step that follows the approval re-check (the
\* job never sets it to running), and a run.failed event for the Run is
\* added to the audit log.
C27_MissingToolFailsAndAudits ==
    [][(ToolMissingStep /\ RunExists(wjob.run_id)) =>
          /\ runs'[wjob.run_id].status = "failed"
          /\ wpc' = "idle"
          /\ Len(audit') = Len(audit) + 1
          /\ audit'[Len(audit')].event_type = "run.failed"
          /\ audit'[Len(audit')].resource_id = wjob.run_id]_vars

\* C27, the part that holds: the Run goes to failed in that step and the
\* job ends there.
C27_MissingToolFails ==
    [][(ToolMissingStep /\ RunExists(wjob.run_id)) =>
          /\ runs'[wjob.run_id].status = "failed"
          /\ wpc' = "idle"
          /\ wres'.outcome = "returned"]_vars

\* lines 192-203: some path argument of the job is outside the tool's
\* allow-list, as the Job Runner's own check decides it
WorkerPathBlocked(tool, args) ==
    LET allowed_prefixes == _normalize_allowed_prefixes(tool.allowed_paths_json)
        paths == _extract_path_values(args)
    IN  \E i \in 1..Len(paths) : ~_is_allowed(paths[i], allowed_prefixes, BaseDir)

\* the Job Runner leaves its validation stage in this step
ValidationStep == wpc = "prepare" /\ wpc' # "prepare"

LastEventIs(etype, r) ==
    /\ Len(audit') = Len(audit) + 1
    /\ audit'[Len(audit')].event_type = etype
    /\ audit'[Len(audit')].resource_id = r

\* C28: dispatch-time validation comes before the running state: a job
\* whose arguments fail the schema re-validation ends its Run failed with
\* the event run.invalid_args, one whose path arguments fail the allow-list
\* re-validation ends it failed with run.path_blocked, and in both cases
\* the Run was not running when validation rejected it and the job ends
\* there.
C28_ValidationBeforeRunning ==
    [][(ValidationStep /\ RunExists(wjob.run_id)) =>
          LET tool == get_tool(wjob.tool_id)
              r == wjob.run_id
              verdict == WorkerSchemaCheck(tool, wjob.args)
          IN  /\ verdict = "invalid" =>
                    /\ runs[r].status # "running"
                    /\ runs'[r].status = "failed"
                    /\ LastEventIs("run.invalid_args", r)
                    /\ wres'.outcome = "returned"
              /\ (verdict = "ok" /\ WorkerPathBlocked(tool, wjob.args)) =>
                    /\ runs[r].status # "running"
                    /\ runs'[r].status = "failed"
                    /\ LastEventIs("run.path_blocked", r)
                    /\ wres'.outcome = "returned"]_vars

\* C28, the part that holds: a job whose arguments fail the schema
\* re-validation ends its Run failed with the event run.invalid_args and
\* returns without going further.
C28_InvalidArgsFailAndAudit ==
    [][(ValidationStep /\ RunExists(wjob.run_id)
            /\ WorkerSchemaCheck(get_tool(wjob.tool_id), wjob.args) = "invalid") =>
          /\ runs'[wjob.run_id].status = "failed"
          /\ LastEventIs("run.invalid_args", wjob.run_id)
          /\ wpc' = "idle"
          /\ wres'.outcome = "returned"]_vars

\* C28, the path half alone: a job whose arguments pass the schema and
\* whose path arguments fail the allow-list ends its Run failed with the
\* event run.path_blocked.
C28_PathBlockedFailsAndAudits ==
    [][(ValidationStep /\ RunExists(wjob.run_id)
            /\ WorkerSchemaCheck(get_tool(wjob.tool_id), wjob.args) = "ok"
            /\ WorkerPathBlocked(get_tool(wjob.tool_id), wjob.args)) =>
          /\ runs'[wjob.run_id].status = "failed"
          /\ LastEventIs("run.path_blocked", wjob.run_id)]_vars

----------------------------------------------------------------------------
(* The executors: claim C31 *)

ErrorLineAppended(res) ==
    /\ Len(res.stderr) = Len(dIn.captured) + 1
    /\ SubSeq(res.stderr, 1, Len(dIn.captured)) = dIn.captured

\* C31: on every execution path a timeout gives exit code 124 and any other
\* launch failure gives exit code 1, each with one error line appended to
\* the captured stderr, and the host and the sandboxed executor give the
\* same exit code and the same captured output for every input.
C31_TimeoutDistinctEverywhere ==
    dpc = "run_done" =>
        /\ dIn.proc.kind = "timeout" => (dOut.exit_code = 124 /\ ErrorLineAppended(dOut))
        /\ dIn.proc.kind = "error" => (dOut.exit_code = 1 /\ ErrorLineAppended(dOut))
        /\ HostExecutor_run(dIn.proc, dIn.captured, dIn.timeout)
               = DockerExecutor_run(dIn.proc, dIn.captured, dIn.timeout)

\* C31, the part that holds: the same for the two executors of the Job
\* Runner, host and docker.
C31_HostAndDockerAgree ==
    (dpc = "run_done" /\ dIn.kind \in {"host", "docker"}) =>
        /\ dIn.proc.kind = "timeout" => (dOut.exit_code = 124 /\ ErrorLineAppended(dOut))
        /\ dIn.proc.kind = "error" => (dOut.exit_code = 1 /\ ErrorLineAppended(dOut))
        /\ dIn.proc.kind = "exit" => dOut = RunResult(dIn.proc.code, dIn.captured)
        /\ HostExecutor_run(dIn.proc, dIn.captured, dIn.timeout)
               = DockerExecutor_run(dIn.proc, dIn.captured, dIn.timeout)

----------------------------------------------------------------------------
(* The command and environment: claim C32 *)

Tokens(command) == {command[i] : i \in 1..Len(command)}

\* every argument reaches the command: through its placeholder, or appended
\* (a true boolean as a bare flag, a false one not at all)
ArgumentsInCommand(command, template, args) ==
    \A i \in 1..Len(args) :
        LET key == args[i].key
            value == args[i].value
        IN  /\ Tok("placeholder", key) \notin Tokens(command)
            /\ IF key \in Placeholders(template) \/ ~value.isbool
               THEN Tok("value", value.str) \in Tokens(command)
               ELSE (Tok("flag", key) \in Tokens(command)) = value.b

ArgumentsInEnv(env, args) ==
    /\ \E e \in env : e.name = "RUN_ID"
    /\ \E e \in env : e.name = "TOOL_ID"
    /\ \A i \in 1..Len(args) : EnvVar("ARG", args[i].key, args[i].value.str) \in env

\* C32: the command handed to the executor is the template with each
\* placeholder replaced by the matching argument value, every other
\* argument appended (a boolean as a bare flag when true, omitted when
\* false), and the environment carries the run id, the tool id and each
\* argument as an ARG_ variable.
C32_CommandAndEnvBuilt ==
    dpc = "cmd_built" =>
        /\ ArgumentsInCommand(dOut.command, dIn.template, dIn.args)
        /\ ArgumentsInEnv(dOut.env, dIn.args)

\* C32, the parts that hold: the Job Runner's environment carries the run
\* id, the tool id and every argument; SimpleExecutor's command carries
\* every argument as the claim says.
C32_EachPathDoesHalf ==
    dpc = "cmd_built" =>
        /\ dIn.path = "worker" => ArgumentsInEnv(dOut.env, dIn.args)
        /\ dIn.path = "simple" =>
               ArgumentsInCommand(dOut.command, dIn.template, dIn.args)

----------------------------------------------------------------------------
(* Rollback: claim C33 *)

\* the loop leaves a step whose last attempt failed under policy rollback
FinallyFailedRollback ==
    /\ ppc \in {"attempted", "settled"}
    /\ ppc' \notin {"attempted", "settled"}
    /\ step_results[CurrentStep.step_id].status = "failed"
    /\ CurrentStep.on_fail = "rollback"

\* C33: when a step with failure policy rollback has finally failed, the
\* rollback routine runs and then the loop ends with no later step
\* attempted; the rollback routine leaves every recorded step result as it
\* is and creates no Run.
C33_RollbackOnlyLogsThenEnds ==
    [][/\ FinallyFailedRollback => ppc' = "rollback" /\ pidx' = pidx
       /\ ppc = "rollback"
            => /\ ppc' = "finish"
               /\ step_results' = step_results
               /\ tries' = tries
               /\ pidx' = pidx
       /\ ppc = "finish"
            => /\ ppc' = "done"
               /\ step_results' = step_results
               /\ tries' = tries
               /\ \A j \in (pidx + 1)..Len(plan) :
                      /\ tries[plan[j].step_id] = <<>>
                      /\ step_results[plan[j].step_id].status = "none"]_vars

\* a plan ended by the rollback of its second step, the first one completed
\* and a third one never attempted
C33_Witness ==
    /\ ppc = "done"
    /\ Len(plan) = 3
    /\ pidx = 2
    /\ plan[2].on_fail = "rollback"
    /\ step_results[plan[1].step_id].status = "completed"
    /\ step_results[plan[2].step_id].status = "failed"
    /\ step_results[plan[3].step_id].status = "none"

----------------------------------------------------------------------------
(* Exceptions in execute_plan: claim C34 *)

\* the attempt just made ended with an exception of the run client
ContainedException ==
    /\ tries' # tries
    /\ step_results'[CurrentStep.step_id].error = "exception"

\* C34: an exception raised in the plan loop aborts the plan at once: the
\* Execution Result has status failed, the exception text as summary and
\* exactly the step results recorded so far, and no further Run is created;
\* an exception raised while creating or awaiting the Run of one step is
\* contained in that step, which is recorded as failed, and the loop goes on.
C34_LoopExceptionAbortsStepExceptionContained ==
    [][/\ ppc = "raised"
            => /\ ppc' = "done"
               /\ overall' = "failed"
               /\ summary' = "exception"
               /\ step_results' = step_results
               /\ tries' = tries
       /\ ContainedException
            => /\ step_results'[CurrentStep.step_id].status = "failed"
               /\ ppc' \in {"attempted", "settled"}
               /\ overall' = ""
               /\ \A id \in StepIds \ {CurrentStep.step_id} :
                      step_results'[id] = step_results[id]]_vars

\* a plan aborted by an exception after its first step completed and its
\* second step failed on an exception of the run client
C34_Witness ==
    /\ ppc = "done"
    /\ overall = "failed"
    /\ summary = "exception"
    /\ Len(plan) = 3
    /\ step_results[plan[1].step_id].status = "completed"
    /\ step_results[plan[2].step_id] = StepResult("failed", "exception", "", "")
    /\ step_results[plan[3].step_id].status = "none"

----------------------------------------------------------------------------
(* Plan construction: claim C35 *)

StepIdsUnique(steps) ==
    \A i, j \in 1..Len(steps) : steps[i].step_id = steps[j].step_id => i = j

\* C35: plan construction either rejects with an error and no plan, or
\* yields a plan in which every step names an existing enabled tool, the
\* step ids are unique and every failure policy is stop, continue or
\* rollback.
C35_BuiltPlanIsWellFormed ==
    dpc = "plan_built" =>
        IF dOut.ok
        THEN /\ dOut.steps # <<>>
             /\ \A i \in 1..Len(dOut.steps) :
                    /\ _tool_exists(dOut.steps[i].tool_id)
                    /\ dOut.steps[i].on_fail \in {"stop", "continue", "rollback"}
             /\ StepIdsUnique(dOut.steps)
        ELSE dOut.error # "" /\ dOut.steps = <<>>

\* C35, the part that holds: a rejection carries an error and no plan; a
\* built plan is not empty and every step of it names an existing enabled
\* tool; nothing outside the answer changes.
C35_BuiltPlanNamesEnabledTools ==
    [][dpc = "plan_data" =>
        /\ IF dOut'.ok
           THEN /\ dOut'.steps # <<>>
                /\ \A i \in 1..Len(dOut'.steps) : _tool_exists(dOut'.steps[i].tool_id)
           ELSE dOut'.error # "" /\ dOut'.steps = <<>>
        /\ UNCHANGED <<pipeVars, planVars, moreVars>>]_vars

----------------------------------------------------------------------------
(* Plan order: claim C36 *)

\* C36: steps are attempted strictly in plan order and one at a time: the
\* loop moves forward by one step at most, an attempt is made for the step
\* the loop is at and for no other, and at that moment every earlier step
\* has a recorded result that no longer changes and no later step has been
\* attempted.
C36_StepsInPlanOrder ==
    [][/\ pidx' \in {pidx, pidx + 1}
       /\ tries' # tries
            => /\ pidx <= Len(plan)
               /\ \A id \in StepIds \ {plan[pidx].step_id} :
                      /\ tries'[id] = tries[id]
                      /\ step_results'[id] = step_results[id]
               /\ Len(tries'[plan[pidx].step_id]) = Len(tries[plan[pidx].step_id]) + 1
               /\ \A j \in 1..(pidx - 1) : step_results[plan[j].step_id].status # "none"
               /\ \A j \in (pidx + 1)..Len(plan) : tries[plan[j].step_id] = <<>>]_vars

\* a finished plan of three steps, each of which was attempted
C36_Witness ==
    /\ ppc = "done"
    /\ Len(plan) = 3
    /\ \A j \in 1..3 : tries[plan[j].step_id] # <<>>

----------------------------------------------------------------------------
(* The two path guards compared: claim C37 *)

\* C37: the dispatch-time guard accepts a candidate against an allow-list
\* exactly when the submission-time guard accepts it.
C37_GuardsAgree ==
    dpc = "path_checked" => dOut.worker = dOut.api

\* C37, the direction that holds: whatever the submission-time guard
\* accepts, the dispatch-time guard accepts too.
C37_WorkerAcceptsWhatApiAccepts ==
    dpc = "path_checked" => (dOut.api => dOut.worker)

----------------------------------------------------------------------------
(* Termination of execute_plan: claim C38 *)

\* the wait in progress ends in this step
WaitEnds == ppc \in {"waiting", "rewaiting"} /\ ppc' \notin {"waiting", "rewaiting"}

----------------------------------------------------------------------------
(* Submission against the policy decision: claim C39 *)

OutcomeMatches(decision, outcome) ==
    /\ (outcome = "rejected") = ~decision.allowed
    /\ (outcome = "pending_approval") = decision.requires_approval
    /\ (outcome = "queued") = (decision.allowed /\ ~decision.requires_approval)

\* C39: for every scopes, tool and args the submission is rejected exactly
\* when decide_execute gives allowed = false, parked as pending_approval
\* exactly when it gives requires_approval = true, and queued otherwise.
C39_SubmissionFollowsDecision ==
    dpc = "submit_decided" => OutcomeMatches(dOut.decision, dOut.outcome)

\* C39, the part that holds: for a caller with the scope tool:execute and a
\* tool that needs no approval and whose schema text parses, the submission
\* follows the Decision.
C39_LowRiskFollowsDecision ==
    (/\ dpc = "submit_decided"
     /\ "tool:execute" \in dIn.scopes
     /\ dIn.tool.args_schema_json # "malformed"
     /\ ~dOut.decision.requires_approval)
        => OutcomeMatches(dOut.decision, dOut.outcome)

----------------------------------------------------------------------------
(* SimpleExecutor: claim C40 *)

SimpleReturned == dpc = "simple_returned" /\ dOut.run # "absent"

\* C40: the status execute_tool returns is the status stored for the Run;
\* an exec_high or write tool is not executed and its Run is stored as
\* pending_approval with exactly one pending approval request; an executed
\* Run is stored as succeeded exactly when the exit code is 0.
C40_ReturnedStatusIsStored ==
    SimpleReturned =>
        /\ dOut.ret.status = dOut.run
        /\ dIn.risk_level \in {"exec_high", "write"}
               => dOut.run = "pending_approval" /\ dOut.pending = 1 /\ ~dOut.executed
        /\ dOut.executed => ((dOut.run = "succeeded") = (dIn.exit_code = 0))

\* C40, the part that holds: an exec_high or write tool is never executed
\* and gets exactly one pending approval request; when no database
\* statement fails, an executed Run is stored as succeeded exactly when the
\* exit code is 0 and the returned status is the stored one.
C40_ParkedNotRunExecutedByExitCode ==
    SimpleReturned =>
        /\ dIn.risk_level \in {"exec_high", "write"}
               => dOut.pending = 1 /\ ~dOut.executed /\ dOut.ret.status = "pending_approval"
        /\ (dOut.executed /\ dIn.fault = "none")
               => /\ (dOut.run = "succeeded") = (dIn.exit_code = 0)
                  /\ dOut.ret.status = dOut.run
                  /\ dOut.pending = 0

====
